---- MODULE Spec2Model ----
(***************************************************************************)
(* The generation-backend routers of pepetopia-core:                       *)
(*   twitter   twitter_bot/src/gemini_service.py  GeminiService            *)
(*   telegram  telegram_bot/src/services/gemini_service.py  GeminiService  *)
(*   draft     twitter_bot/src/ai_engine.py  ModelChain, analyze_and_draft *)
(*   investor  investor_bot/src/services/summarizer.py  discovery          *)
(* One behaviour follows one deployment (bot), request after request.      *)
(* Every generation call is one step; its outcome is chosen by the         *)
(* environment.                                                            *)
(* Further: investor_bot's daily task (main.py, utils/persistence.py,      *)
(* services/github_service.py) and telegram_bot's message pipeline         *)
(* (handlers/moderation.py, handlers/ai_chat.py).                          *)
(***************************************************************************)
EXTENDS Integers, Sequences, FiniteSets, TLC

VARIABLES bot, hasKey, models, loaded, now, lastFetch,
          pc, retries, chain, idx, attempt, calls, result, raised,
          nreq, prevWinner, request, probe, probed,
          repo, state, fallback_message, tasks, journal, nruns,
          user_flood_log, clock, update

vars == <<bot, hasKey, models, loaded, now, lastFetch,
          pc, retries, chain, idx, attempt, calls, result, raised,
          nreq, prevWinner, request, probe, probed,
          repo, state, fallback_message, tasks, journal, nruns,
          user_flood_log, clock, update>>

\* the variables of the routers, and those of the discovery functions taken alone
routerVars == <<bot, hasKey, models, loaded, now, lastFetch,
                pc, retries, chain, idx, attempt, calls, result, raised,
                nreq, prevWinner, request>>
probeVars == <<probe, probed>>

\* the variables of investor_bot's daily task
dailyVars == <<repo, state, fallback_message, tasks, journal, nruns>>

\* the variables of telegram_bot's message pipeline
moderationVars == <<user_flood_log, clock, update>>

\* the variables of the bots' handlers
handlerVars == <<dailyVars, moderationVars>>

(***************************************************************************)
(* Bounds of the model.                                                    *)
(***************************************************************************)
MaxListing == 3
MaxRequests == 2
MaxTicks == 2
MaxProbe == 3

Bots == {"twitter", "telegram", "draft", "investor"}

(***************************************************************************)
(* Model identifiers.  An identifier is the optional "models/" prefix and  *)
(* the rest of the string (base).  The substring and regex tests of the    *)
(* code are tabulated over the bases the model uses.                       *)
(***************************************************************************)
Name(p, b) == [pfx |-> p, base |-> b]
Bare(b) == Name(FALSE, b)
Pref(b) == Name(TRUE, b)

Bases == {"gemini-2.0-flash-exp", "gemini-2.0-flash", "gemini-1.5-pro",
          "gemini-1.5-flash", "gemini-1.0-pro", "embedding-001",
          "gemini-embedding-exp"}

\* name.replace("models/", "")
StripPrefix(n) == Name(FALSE, n.base)

\* The patterns of the code that occur as substrings of a base.
Subs(b) ==
    CASE b = "gemini-2.0-flash-exp" -> {"gemini", "gemini-2", "flash", "exp"}
      [] b = "gemini-2.0-flash"     -> {"gemini", "gemini-2", "flash"}
      [] b = "gemini-1.5-pro"       -> {"gemini", "pro"}
      [] b = "gemini-1.5-flash"     -> {"gemini", "flash", "gemini-1.5-flash"}
      [] b = "gemini-1.0-pro"       -> {"gemini", "pro"}
      [] b = "embedding-001"        -> {"embedding"}
      [] b = "gemini-embedding-exp" -> {"gemini", "embedding", "exp"}

\* pat in name  (no pattern of the code occurs in, or across, "models/")
Has(n, pat) == pat \in Subs(n.base)

\* re.search(r'gemini-(\d+(?:\.\d+)?)', name): ten times the number matched,
\* -1 when the pattern does not match.
VersionMatch(n) ==
    CASE n.base = "gemini-2.0-flash-exp" -> 20
      [] n.base = "gemini-2.0-flash"     -> 20
      [] n.base = "gemini-1.5-pro"       -> 15
      [] n.base = "gemini-1.5-flash"     -> 15
      [] n.base = "gemini-1.0-pro"       -> 10
      [] n.base = "embedding-001"        -> -1
      [] n.base = "gemini-embedding-exp" -> -1

\* The place of a base in the ascending order of Python's string comparison.
NameRank(n) ==
    CASE n.base = "embedding-001"        -> 1
      [] n.base = "gemini-1.0-pro"       -> 2
      [] n.base = "gemini-1.5-flash"     -> 3
      [] n.base = "gemini-1.5-pro"       -> 4
      [] n.base = "gemini-2.0-flash"     -> 5
      [] n.base = "gemini-2.0-flash-exp" -> 6
      [] n.base = "gemini-embedding-exp" -> 7

(***************************************************************************)
(* The listing endpoint: what one call of models.list() gives.             *)
(***************************************************************************)
ApiModel(b, g) == [name |-> Pref(b), gen |-> g]

Catalogue == {ApiModel("gemini-2.0-flash-exp", TRUE),
              ApiModel("gemini-1.5-pro", TRUE),
              ApiModel("gemini-1.5-flash", TRUE),
              ApiModel("gemini-embedding-exp", FALSE)}

SeqsUpTo(S, n) == UNION {[1..k -> S] : k \in 0..n}

\* The endpoint lists a model once.
Distinct(s) == \A i, j \in 1..Len(s) : i # j => s[i] # s[j]

\* The call raises, or returns up to MaxListing models in any order.
NoListing == [raises |-> TRUE, items |-> <<>>]

Listings == {NoListing}
            \cup {[raises |-> FALSE, items |-> s] :
                    s \in {t \in SeqsUpTo(Catalogue, MaxListing) : Distinct(t)}}

(***************************************************************************)
(* sorted(..., reverse=True) / list.sort(reverse=True): descending by key, *)
(* elements of equal key keep their order.  Items are <<key, value>>.      *)
(***************************************************************************)
RECURSIVE InsertDesc(_, _)
InsertDesc(s, p) ==
    IF s = <<>> THEN <<p>>
    ELSE IF Head(s)[1] >= p[1] THEN <<Head(s)>> \o InsertDesc(Tail(s), p)
    ELSE <<p>> \o s

RECURSIVE SortFrom(_, _)
SortFrom(acc, rest) ==
    IF rest = <<>> THEN acc ELSE SortFrom(InsertDesc(acc, Head(rest)), Tail(rest))

SortDesc(pairs) ==
    LET sorted == SortFrom(<<>>, pairs)
    IN  [i \in 1..Len(pairs) |-> sorted[i][2]]

Range(s) == {s[i] : i \in 1..Len(s)}

(***************************************************************************)
(* twitter_bot GeminiService: discovery.                                   *)
(***************************************************************************)
FALLBACK_MODEL == Bare("gemini-1.5-flash")

\* _extract_version: the number after 'gemini-' (times ten), 0.0 without a match
ExtractVersion(n) == IF VersionMatch(n) = -1 THEN 0 ELSE VersionMatch(n)

\* the sort key (version, name) of list_models as one number
ListSortKey(n) == ExtractVersion(n) * 10 + NameRank(n)

\* The loop of list_models: the Gemini models that support generateContent,
\* with "models/" removed.
RECURSIVE FoundModels(_)
FoundModels(items) ==
    IF items = <<>> THEN <<>>
    ELSE (IF Has(Head(items).name, "gemini") /\ Head(items).gen
          THEN <<StripPrefix(Head(items).name)>> ELSE <<>>)
         \o FoundModels(Tail(items))

\* list_models without its first two lines: the endpoint is called at every call
ListModelsAlwaysFetch(cache, listing) ==
    IF listing.raises THEN [cache |-> cache, ret |-> <<>>, contacted |-> TRUE]
    ELSE LET found == FoundModels(listing.items)
         IN  IF found = <<>> THEN [cache |-> cache, ret |-> <<>>, contacted |-> TRUE]
             ELSE LET sorted == SortDesc([i \in 1..Len(found) |->
                                            <<ListSortKey(found[i]), found[i]>>])
                  IN  [cache |-> sorted, ret |-> sorted, contacted |-> TRUE]

\* GeminiService.list_models: [cache |-> the new _model_cache, ret |-> the list
\* returned, contacted |-> whether client.aio.models.list() was called]
ListModels(cache, listing) ==
    IF cache # <<>> THEN [cache |-> cache, ret |-> cache, contacted |-> FALSE]
    ELSE IF listing.raises THEN [cache |-> cache, ret |-> <<>>, contacted |-> TRUE]
    ELSE LET found == FoundModels(listing.items)
         IN  IF found = <<>> THEN [cache |-> cache, ret |-> <<>>, contacted |-> TRUE]
             ELSE LET sorted == SortDesc([i \in 1..Len(found) |->
                                            <<ListSortKey(found[i]), found[i]>>])
                  IN  [cache |-> sorted, ret |-> sorted, contacted |-> TRUE]

\* GeminiService.select_newest_model, given what list_models returned
SelectNewestModel(candidates) ==
    IF candidates = <<>> THEN FALLBACK_MODEL ELSE candidates[1]

\* models_to_try of _generate_with_retry
ModelsToTry(primary) ==
    <<primary>> \o (IF primary # FALLBACK_MODEL THEN <<FALLBACK_MODEL>> ELSE <<>>)

(***************************************************************************)
(* twitter_bot ai_engine ModelChain: scoring and discovery.                *)
(***************************************************************************)
CACHE_DURATION == 3600

\* a score that leaves the version out
ChainScoreNoVersion(v, subs) ==
    (IF "pro" \in subs THEN 100
     ELSE IF "flash" \in subs THEN 50
     ELSE IF "ultra" \in subs THEN 200 ELSE 0)
    + (IF "exp" \in subs \/ "preview" \in subs THEN 10 ELSE 0)
    - (IF "vision" \in subs /\ "pro" \notin subs THEN 5000 ELSE 0)

\* The arithmetic of _calculate_model_score, times ten, for a name whose version
\* match is v (ten times the number, -1 without a match) and in which the
\* patterns subs occur.
ChainScore(v, subs) ==
    (IF v # -1 THEN v * 100 ELSE 0)
    + (IF "pro" \in subs THEN 100
       ELSE IF "flash" \in subs THEN 50
       ELSE IF "ultra" \in subs THEN 200 ELSE 0)
    + (IF "exp" \in subs \/ "preview" \in subs THEN 10 ELSE 0)
    - (IF "vision" \in subs /\ "pro" \notin subs THEN 5000 ELSE 0)

\* ModelChain._calculate_model_score, times ten
CalculateModelScore(n) == ChainScore(VersionMatch(n), Subs(n.base))

RECURSIVE GeminiModels(_)
GeminiModels(items) ==
    IF items = <<>> THEN <<>>
    ELSE (IF Has(Head(items).name, "gemini") /\ ~Has(Head(items).name, "embedding")
          THEN <<StripPrefix(Head(items).name)>> ELSE <<>>)
         \o GeminiModels(Tail(items))

\* ModelChain._fetch_and_rank_models
FetchAndRankModels(listing) ==
    IF listing.raises
    THEN <<Bare("gemini-1.5-pro"), Bare("gemini-1.5-flash"), Bare("gemini-1.0-pro")>>
    ELSE LET gm == GeminiModels(listing.items)
         IN  IF gm = <<>> THEN <<Bare("gemini-1.5-pro"), Bare("gemini-1.5-flash")>>
             ELSE SortDesc([i \in 1..Len(gm) |-> <<CalculateModelScore(gm[i]), gm[i]>>])

\* a cache that is fetched once and kept for ever
MustFetchWhenEmpty(cached, fetchedAt, t) == cached = <<>>

\* get_models: "if not cls._cached_models or
\* (current_time - cls._last_fetch_time > cls._CACHE_DURATION)"
MustFetch(cached, fetchedAt, t) == cached = <<>> \/ t - fetchedAt > CACHE_DURATION

\* ModelChain.get_models: [cached, fetched_at, fetched], at time t
GetModels(cached, fetchedAt, t, listing) ==
    IF MustFetch(cached, fetchedAt, t)
    THEN [cached |-> FetchAndRankModels(listing), fetchedAt |-> t, fetched |-> TRUE]
    ELSE [cached |-> cached, fetchedAt |-> fetchedAt, fetched |-> FALSE]

(***************************************************************************)
(* investor_bot ModelDiscoveryService.                                     *)
(***************************************************************************)
FALLBACK_MODELS ==
    <<Pref("gemini-2.0-flash"), Pref("gemini-1.5-pro"), Pref("gemini-1.5-flash")>>

\* The body of _parse_model_info for a name n whose version match is v and in
\* which the patterns subs occur: version (times ten), tier, experimental flag.
ModelInfo(n, v, subs) ==
    [name |-> n,
     version |-> IF v # -1 THEN v ELSE 10,
     tier |-> IF "ultra" \in subs THEN 3
              ELSE IF "pro" \in subs THEN 2
              ELSE IF "flash" \in subs THEN 1
              ELSE IF "nano" \in subs THEN 0 ELSE 1,
     is_experimental |-> "exp" \in subs \/ "experimental" \in subs \/ "preview" \in subs]

\* _parse_model_info
ParseModelInfo(n) == ModelInfo(n, VersionMatch(n), Subs(n.base))

\* GeminiModelInfo.sort_key (version, tier, experimental_penalty) as one number
SortKey(info) ==
    info.version * 100 + info.tier * 10 + (IF info.is_experimental THEN 0 ELSE 1)

RECURSIVE GenerativeGemini(_)
GenerativeGemini(items) ==
    IF items = <<>> THEN <<>>
    ELSE (IF Head(items).gen /\ Has(Head(items).name, "gemini")
          THEN <<ParseModelInfo(Head(items).name)>> ELSE <<>>)
         \o GenerativeGemini(Tail(items))

\* discover_models returning model_names as it is
DiscoverModelsNoFallback(listing) ==
    IF listing.raises THEN FALLBACK_MODELS
    ELSE LET gm == GenerativeGemini(listing.items)
         IN  SortDesc([i \in 1..Len(gm) |-> <<SortKey(gm[i]), gm[i].name>>])

\* ModelDiscoveryService.discover_models
DiscoverModels(listing) ==
    IF listing.raises THEN FALLBACK_MODELS
    ELSE LET gm == GenerativeGemini(listing.items)
             names == SortDesc([i \in 1..Len(gm) |-> <<SortKey(gm[i]), gm[i].name>>])
         IN  IF names # <<>> THEN names ELSE FALLBACK_MODELS

(***************************************************************************)
(* telegram_bot GeminiService.initialize.                                  *)
(***************************************************************************)
\* a score without the bonus for exp / preview
ModelScoreNoRecency(v, subs) ==
    (IF v # -1 THEN v * 1000 ELSE 0)
    + (IF "pro" \in subs THEN 500 ELSE 0)
    + (IF "flash" \in subs THEN 200 ELSE 0)
    + (IF "latest" \in subs THEN 100 ELSE 0)
    - (IF "lite" \in subs THEN 500 ELSE 0)
    - (IF "8b" \in subs THEN 500 ELSE 0)

\* a score in which the tier counts as much as the version
ModelScoreHeavyTier(v, subs) ==
    (IF v # -1 THEN v * 1000 ELSE 0)
    + (IF "pro" \in subs THEN 50000 ELSE 0)
    + (IF "flash" \in subs THEN 200 ELSE 0)
    + (IF "latest" \in subs THEN 100 ELSE 0)
    + (IF "exp" \in subs \/ "preview" \in subs THEN 50 ELSE 0)
    - (IF "lite" \in subs THEN 500 ELSE 0)
    - (IF "8b" \in subs THEN 500 ELSE 0)

\* The arithmetic of model_scorer, times ten, for a name whose version match is
\* v and in which the patterns subs occur.
ModelScore(v, subs) ==
    (IF v # -1 THEN v * 1000 ELSE 0)
    + (IF "pro" \in subs THEN 500 ELSE 0)
    + (IF "flash" \in subs THEN 200 ELSE 0)
    + (IF "latest" \in subs THEN 100 ELSE 0)
    + (IF "exp" \in subs \/ "preview" \in subs THEN 50 ELSE 0)
    - (IF "lite" \in subs THEN 500 ELSE 0)
    - (IF "8b" \in subs THEN 500 ELSE 0)

\* model_scorer, times ten
ModelScorer(n) == ModelScore(VersionMatch(n), Subs(n.base))

RECURSIVE FilteredModels(_)
FilteredModels(items) ==
    IF items = <<>> THEN <<>>
    ELSE (IF /\ Head(items).gen
             /\ ~Has(Head(items).name, "gemma")
             /\ ~Has(Head(items).name, "nano")
             /\ ~Has(Head(items).name, "embedding")
          THEN <<Head(items).name>> ELSE <<>>)
         \o FilteredModels(Tail(items))

IsSafetyNet(n) == Has(n, "gemini-1.5-flash") /\ ~Has(n, "8b")

\* the chain initialize() stores in _available_models, given the API key is set
InitializeChain(listing) ==
    IF listing.raises THEN <<Pref("gemini-1.5-flash")>>
    ELSE LET fm == FilteredModels(listing.items)
             sorted == SortDesc([i \in 1..Len(fm) |-> <<ModelScorer(fm[i]), fm[i]>>])
             first == SelectSeq(sorted, LAMBDA m : ~IsSafetyNet(m))
             net == SelectSeq(sorted, IsSafetyNet)
             netSorted == SortDesc([i \in 1..Len(net) |->
                                      <<IF Has(net[i], "latest") THEN 1 ELSE 0, net[i]>>])
             final == first \o netSorted
         IN  IF final = <<>>
             THEN <<Pref("gemini-2.0-flash-exp"), Pref("gemini-1.5-pro"),
                    Pref("gemini-1.5-flash")>>
             ELSE final

\* GeminiService.initialize: the new _available_models
Initialize(available, key, listing) ==
    IF ~key THEN available ELSE InitializeChain(listing)

(***************************************************************************)
(* What one generation call can give: a response with a text (possibly     *)
(* empty), or an exception of a class with a message.                      *)
(***************************************************************************)
Resp(t) == [exc |-> "", msg |-> "", text |-> t]
Exc(c, m) == [exc |-> c, msg |-> m, text |-> ""]

QuotaError == Exc("ResourceExhausted", "429 RESOURCE_EXHAUSTED: Quota exceeded")
NotFoundError == Exc("NotFound", "404 NOT_FOUND: model is not found")
TransientError == Exc("InternalServerError", "500 INTERNAL: internal error")
OtherError == Exc("ValueError", "unexpected response")

Texts == {"{\"analysis\": \"ok\", \"options\": []}", "not json", ""}

Outcomes == {Resp(t) : t \in Texts}
            \cup {QuotaError, NotFoundError, TransientError, OtherError}

\* The markers of the executor that occur in an exception's message.
Marks(msg) ==
    CASE msg = "429 RESOURCE_EXHAUSTED: Quota exceeded" -> {"429", "RESOURCE_EXHAUSTED"}
      [] msg = "404 NOT_FOUND: model is not found"       -> {"404", "NOT_FOUND"}
      [] msg = "500 INTERNAL: internal error"            -> {}
      [] msg = "unexpected response"                     -> {}
      [] msg = ""                                        -> {}

\* The classes of the model that derive from Exception.
ExceptionClasses == {"ResourceExhausted", "NotFound", "InternalServerError",
                     "ServiceUnavailable", "InvalidArgument", "ValueError",
                     "JSONDecodeError"}

\* json.loads(text) returns (it raises otherwise)
JsonLoads(t) == t = "{\"analysis\": \"ok\", \"options\": []}"

NoResult == [kind |-> "none", text |-> "", model |-> Bare("")]
Success(t, m) == [kind |-> "success", text |-> t, model |-> m]

(***************************************************************************)
(* twitter_bot GeminiService._generate_with_retry.                         *)
(***************************************************************************)
DEFAULT_RETRIES == 3

\* What a caller hands to _generate_with_retry.  Temperatures are in tenths.
\* twitter_bot: (prompt, system_instruction); telegram_bot: (prompt,
\* temperature, system_instruction), None written "".
NoRequest == [prompt |-> ""]
Prompts == {"prompt-a", "prompt-b"}
Instructions == {"", "instruction-a"}
Temperatures == {5, 9}
TwitterRequests == [prompt : Prompts, system_instruction : Instructions \ {""}]
TelegramRequests == [prompt : Prompts, temperature : Temperatures,
                     system_instruction : Instructions]
TwitterDefaultRequest == [prompt |-> "prompt-a", system_instruction |-> "instruction-a"]
\* get_response(user_text): temperature 0.9, no system instruction
TelegramChatRequest == [prompt |-> "prompt-a", temperature |-> 9, system_instruction |-> ""]

TOPI_SYSTEM_INSTRUCTION == "TOPI"
TWITTER_TEMPERATURE == 7
TELEGRAM_DEFAULT_TEMPERATURE == 8

\* a call that falls back to the default temperature of the signature
TelegramCallDefaultTemperature(req) ==
    [contents |-> req.prompt,
     system_instruction |-> IF req.system_instruction # "" THEN req.system_instruction
                            ELSE TOPI_SYSTEM_INSTRUCTION,
     temperature |-> TELEGRAM_DEFAULT_TEMPERATURE]

\* model.generate_content(prompt, generation_config=GenerationConfig(temperature))
\* on GenerativeModel(model_name, system_instruction=active_instruction)
TelegramCall(req) ==
    [contents |-> req.prompt,
     system_instruction |-> IF req.system_instruction # "" THEN req.system_instruction
                            ELSE TOPI_SYSTEM_INSTRUCTION,
     temperature |-> req.temperature]

\* client.aio.models.generate_content(model, contents=prompt,
\* config=GenerateContentConfig(system_instruction, temperature=0.7, ...))
TwitterCall(req) ==
    [contents |-> req.prompt,
     system_instruction |-> req.system_instruction,
     temperature |-> TWITTER_TEMPERATURE]

\* history for the properties, no field of the code: the model returned by the
\* last successful request
Winner == IF result.kind = "success" THEN <<result.model>> ELSE prevWinner

\* a loop that starts at the model that answered last (telegram's chain)
StickyFirstIndex ==
    IF bot = "telegram" /\ Winner # <<>> /\ \E i \in 1..Len(models) : models[i] = Winner[1]
    THEN CHOOSE i \in 1..Len(models) : models[i] = Winner[1]
    ELSE 1

\* where a request's loop over its candidates starts: the head of the list
FirstIndex == 1

\* a loop that passes over a candidate
NextIndexSkipping(i) == IF i + 2 <= Len(chain) THEN i + 2 ELSE i + 1

\* the loop's step: the candidate after the i-th
NextIndex(i) == i + 1

\* a loop left after its first candidate
NoMoreCandidates(i) == FALSE

\* the loop goes on after the i-th candidate while the list has more
MoreCandidates(i) == i < Len(chain)

\* a loop that looks the i-th candidate up in the shared list at each pass
CandidateShared(i) == IF i <= Len(models) THEN models[i] ELSE chain[i]

\* the i-th candidate of the loop: the loop iterates the list object it was
\* started on, whatever the class attribute is bound to afterwards
CandidateAt(i) == chain[i]

KeyMissing == [kind |-> "nokey", text |-> "Error: API Key missing.",
               model |-> Bare("unknown-model")]
\* a failure text that carries the last error of the backends
TwitterFailureWithError ==
    [kind |-> "failure",
     text |-> IF calls = <<>> THEN "Error" ELSE calls[Len(calls)].out.msg,
     model |-> Bare("None")]

TwitterFailure ==
    [kind |-> "failure", text |-> "Error: All available AI models failed to respond.",
     model |-> Bare("None")]

\* a handler that names the API's error classes only
CaughtApiErrorsOnly(out) ==
    out.exc \in {"ResourceExhausted", "NotFound", "InternalServerError", "ServiceUnavailable"}

\* except Exception as e
CaughtTwitter(out) == out.exc \in ExceptionClasses

\* every exception leaves the candidate at once
SwitchAlways(msg) == TRUE

\* a marker list without the quota markers
SwitchOnNotFoundOnly(msg) == Marks(msg) \cap {"404", "NOT_FOUND"} # {}

\* any(err_code in error_msg for err_code in ["429", "RESOURCE_EXHAUSTED", "404", "NOT_FOUND"])
SwitchImmediately(msg) ==
    Marks(msg) \cap {"429", "RESOURCE_EXHAUSTED", "404", "NOT_FOUND"} # {}

\* a wait that does not grow
BackoffConstant(a) == 1

\* asyncio.sleep(1 + attempt)
Backoff(a) == 1 + a

\* a loop bound that is one too large
MoreAttemptsOffByOne(a, r) == a + 1 < r + 1

\* for attempt in range(retries): another attempt follows attempt a
MoreAttempts(a, r) == a + 1 < r

StartTwitter(listing, r, req) ==
    /\ bot = "twitter" /\ pc # "run" /\ nreq < MaxRequests
    /\ nreq' = nreq + 1
    /\ retries' = r
    /\ calls' = <<>>
    /\ raised' = FALSE
    /\ prevWinner' = Winner
    /\ attempt' = 0
    /\ IF ~hasKey
       THEN /\ result' = KeyMissing
            /\ pc' = "done"
            /\ chain' = <<>>
            /\ idx' = 0
            /\ UNCHANGED models
       ELSE LET lm == ListModels(models, listing)
            IN  /\ models' = lm.cache
                /\ chain' = ModelsToTry(SelectNewestModel(lm.ret))
                /\ idx' = FirstIndex
                /\ pc' = "run"
                /\ result' = NoResult
    /\ UNCHANGED <<bot, hasKey, loaded, now, lastFetch>>
    /\ request' = req
    /\ UNCHANGED <<probeVars, handlerVars>>

GenerateTwitter(out) ==
    /\ bot = "twitter" /\ pc = "run"
    /\ LET thrown == out.exc # ""
           caught == thrown /\ CaughtTwitter(out)
           switch == caught /\ SwitchImmediately(out.msg)
           slept == IF caught /\ ~switch THEN Backoff(attempt) ELSE 0
       IN  /\ calls' = Append(calls, [model |-> CandidateAt(idx), idx |-> idx,
                                      attempt |-> attempt, out |-> out, sleep |-> slept,
                                      config |-> TwitterCall(request)])
           /\ IF ~thrown /\ out.text # ""
              THEN /\ result' = Success(out.text, CandidateAt(idx))
                   /\ pc' = "done"
                   /\ UNCHANGED <<idx, attempt, raised>>
              ELSE IF thrown /\ ~caught
              THEN /\ raised' = TRUE
                   /\ pc' = "done"
                   /\ UNCHANGED <<idx, attempt, result>>
              ELSE IF ~switch /\ MoreAttempts(attempt, retries)
              THEN /\ attempt' = attempt + 1
                   /\ UNCHANGED <<idx, pc, result, raised>>
              ELSE IF MoreCandidates(idx)
              THEN /\ idx' = NextIndex(idx)
                   /\ attempt' = 0
                   /\ UNCHANGED <<pc, result, raised>>
              ELSE /\ result' = TwitterFailure
                   /\ pc' = "done"
                   /\ UNCHANGED <<idx, attempt, raised>>
    /\ UNCHANGED <<bot, hasKey, models, loaded, now, lastFetch, retries, chain,
                   nreq, prevWinner>>
    /\ UNCHANGED <<request, probeVars, handlerVars>>

(***************************************************************************)
(* telegram_bot GeminiService._generate_with_retry.                        *)
(***************************************************************************)
TelegramFailure ==
    [kind |-> "failure",
     text |-> "My brain is buffering... (Global neural outage, please try again in 5 mins.)",
     model |-> Bare("None")]

\* except (ResourceExhausted, InternalServerError, ServiceUnavailable) /
\* except InvalidArgument / except Exception
CaughtTelegram(out) ==
    \/ out.exc \in {"ResourceExhausted", "InternalServerError", "ServiceUnavailable"}
    \/ out.exc = "InvalidArgument"
    \/ out.exc \in ExceptionClasses

StartTelegram(listing, req) ==
    /\ bot = "telegram" /\ pc # "run" /\ nreq < MaxRequests
    /\ nreq' = nreq + 1
    /\ calls' = <<>>
    /\ raised' = FALSE
    /\ prevWinner' = Winner
    /\ attempt' = 0
    /\ LET available == IF models = <<>> THEN Initialize(models, hasKey, listing)
                        ELSE models
       IN  /\ models' = available
           /\ chain' = available
           /\ IF available = <<>>
              THEN /\ result' = TelegramFailure
                   /\ pc' = "done"
                   /\ idx' = 0
              ELSE /\ result' = NoResult
                   /\ pc' = "run"
                   /\ idx' = FirstIndex
    /\ UNCHANGED <<bot, hasKey, loaded, now, lastFetch, retries>>
    /\ request' = req
    /\ UNCHANGED <<probeVars, handlerVars>>

GenerateTelegram(out) ==
    /\ bot = "telegram" /\ pc = "run"
    /\ calls' = Append(calls, [model |-> CandidateAt(idx), idx |-> idx,
                               attempt |-> 0, out |-> out, sleep |-> 0,
                               config |-> TelegramCall(request)])
    /\ IF out.exc = "" /\ out.text # ""
       THEN /\ result' = Success(out.text, CandidateAt(idx))
            /\ pc' = "done"
            /\ UNCHANGED <<idx, raised>>
       ELSE IF out.exc # "" /\ ~CaughtTelegram(out)
       THEN /\ raised' = TRUE
            /\ pc' = "done"
            /\ UNCHANGED <<idx, result>>
       ELSE IF MoreCandidates(idx)
       THEN /\ idx' = NextIndex(idx)
            /\ UNCHANGED <<pc, result, raised>>
       ELSE /\ result' = TelegramFailure
            /\ pc' = "done"
            /\ UNCHANGED <<idx, raised>>
    /\ UNCHANGED <<bot, hasKey, models, loaded, now, lastFetch, retries, chain,
                   attempt, nreq, prevWinner>>
    /\ UNCHANGED <<request, probeVars, handlerVars>>

(***************************************************************************)
(* twitter_bot ai_engine.analyze_and_draft.                                *)
(***************************************************************************)
TickSeconds == 2000
EpochStart == 5000

DraftFailure ==
    [kind |-> "failure",
     text |-> "SYSTEM FAILURE: All AI models are currently unavailable. Please try again later.",
     model |-> Bare("None")]

\* a handler for the errors of the API only
CaughtDraftApiOnly(out) ==
    out.exc \in {"ResourceExhausted", "NotFound", "InternalServerError",
                 "ServiceUnavailable", "InvalidArgument"}

\* except Exception as e
CaughtDraft(out) == out.exc \in ExceptionClasses

\* What the try block of analyze_and_draft ends with: the exception of
\* generate_content, the JSONDecodeError of json.loads(response.text), or the
\* response.
DraftTry(out) ==
    IF out.exc = "" /\ ~JsonLoads(out.text)
    THEN Exc("JSONDecodeError", "Expecting value") ELSE out

StartDraft(listing) ==
    /\ bot = "draft" /\ pc # "run" /\ nreq < MaxRequests
    /\ nreq' = nreq + 1
    /\ calls' = <<>>
    /\ raised' = FALSE
    /\ prevWinner' = Winner
    /\ attempt' = 0
    /\ LET gm == GetModels(models, lastFetch, now, listing)
       IN  /\ models' = gm.cached
           /\ lastFetch' = gm.fetchedAt
           /\ chain' = gm.cached
           /\ IF gm.cached = <<>>
              THEN /\ result' = DraftFailure
                   /\ pc' = "done"
                   /\ idx' = 0
              ELSE /\ result' = NoResult
                   /\ pc' = "run"
                   /\ idx' = FirstIndex
    /\ UNCHANGED <<bot, hasKey, loaded, now, retries>>
    /\ UNCHANGED <<request, probeVars, handlerVars>>

\* One pass of the loop: generate_content, json.loads, format_response.
GenerateDraft(out) ==
    /\ bot = "draft" /\ pc = "run"
    /\ calls' = Append(calls, [model |-> CandidateAt(idx), idx |-> idx,
                               attempt |-> 0, out |-> out, sleep |-> 0])
    /\ IF DraftTry(out).exc = ""
       THEN /\ result' = Success(out.text, CandidateAt(idx))
            /\ pc' = "done"
            /\ UNCHANGED <<idx, raised>>
       ELSE IF ~CaughtDraft(DraftTry(out))
       THEN /\ raised' = TRUE
            /\ pc' = "done"
            /\ UNCHANGED <<idx, result>>
       ELSE IF MoreCandidates(idx)
       THEN /\ idx' = NextIndex(idx)
            /\ UNCHANGED <<pc, result, raised>>
       ELSE /\ result' = DraftFailure
            /\ pc' = "done"
            /\ UNCHANGED <<idx, raised>>
    /\ UNCHANGED <<bot, hasKey, models, loaded, now, lastFetch, retries, chain,
                   attempt, nreq, prevWinner>>
    /\ UNCHANGED <<request, probeVars, handlerVars>>

\* Time passes, between two requests or while a request waits for a model.
Tick ==
    /\ bot = "draft"
    /\ now < EpochStart + MaxTicks * TickSeconds
    /\ now' = now + TickSeconds
    /\ UNCHANGED <<bot, hasKey, models, loaded, lastFetch, pc, retries, chain, idx,
                   attempt, calls, result, raised, nreq, prevWinner>>
    /\ UNCHANGED <<request, probeVars, handlerVars>>

\* While a request waits for a model, another caller of analyze_and_draft reads
\* the models: ModelChain.get_models() refreshes the shared cache when it has
\* expired.
ConcurrentGetModels(listing) ==
    /\ bot = "draft" /\ pc = "run"
    /\ LET gm == GetModels(models, lastFetch, now, listing)
       IN  /\ models' = gm.cached
           /\ lastFetch' = gm.fetchedAt
    /\ UNCHANGED <<bot, hasKey, loaded, now, pc, retries, chain, idx, attempt, calls,
                   result, raised, nreq, prevWinner>>
    /\ UNCHANGED <<request, probeVars, handlerVars>>

\* While a request waits for a model, another request enters telegram_bot's
\* _generate_with_retry: it calls initialize() when _available_models is empty.
ConcurrentInitialize(listing) ==
    /\ bot = "telegram" /\ pc = "run"
    /\ models' = IF models = <<>> THEN Initialize(models, hasKey, listing) ELSE models
    /\ UNCHANGED <<bot, hasKey, loaded, now, lastFetch, pc, retries, chain, idx,
                   attempt, calls, result, raised, nreq, prevWinner>>
    /\ UNCHANGED <<request, probeVars, handlerVars>>

(***************************************************************************)
(* investor_bot CommitSummarizer: the lazily loaded model list.            *)
(***************************************************************************)
\* CommitSummarizer.available_models, first read
AvailableModels(listing) ==
    /\ bot = "investor" /\ ~loaded
    /\ models' = DiscoverModels(listing)
    /\ loaded' = TRUE
    /\ UNCHANGED <<bot, hasKey, now, lastFetch, pc, retries, chain, idx, attempt,
                   calls, result, raised, nreq, prevWinner>>
    /\ UNCHANGED <<request, probeVars, handlerVars>>

\* CommitSummarizer.refresh_models
RefreshModels(listing) ==
    /\ bot = "investor" /\ loaded /\ pc # "run" /\ nreq < MaxRequests
    /\ models' = DiscoverModels(listing)
    /\ nreq' = nreq + 1
    /\ pc' = "idle"
    /\ chain' = <<>>
    /\ idx' = 0
    /\ attempt' = 0
    /\ calls' = <<>>
    /\ result' = NoResult
    /\ UNCHANGED <<bot, hasKey, loaded, now, lastFetch, retries, raised, prevWinner>>
    /\ UNCHANGED <<request, probeVars, handlerVars>>

(***************************************************************************)
(* investor_bot CommitSummarizer: _parse_response.  A response text is a   *)
(* sequence of tokens: the fence (three backticks), the word "json", white *)
(* space, and payloads (a stretch of text without fence and without white  *)
(* space at its ends).                                                     *)
(***************************************************************************)
WhiteSpace == {" ", "\n"}

\* the three backticks of a code fence
Fence == "FENCE"

ArrayPayload == "[\"a\", \"b\"]"
EmptyArrayPayload == "[]"
SingleArrayPayload == "[\"a\"]"
\* an array whose only string holds a fence
FenceArrayPayload == "[\"FENCE\"]"
StringPayload == "\"a\""
ObjectPayload == "{\"k\": 1}"
BrokenPayload == "[\"a\", "

\* json.loads of a text made of one payload: the value, or a JSONDecodeError
JsonValue(tok) ==
    CASE tok = ArrayPayload  -> [ok |-> TRUE, kind |-> "list", items |-> <<"a", "b">>]
      [] tok = EmptyArrayPayload  -> [ok |-> TRUE, kind |-> "list", items |-> <<>>]
      [] tok = SingleArrayPayload -> [ok |-> TRUE, kind |-> "list", items |-> <<"a">>]
      [] tok = FenceArrayPayload  -> [ok |-> TRUE, kind |-> "list", items |-> <<Fence>>]
      [] tok = StringPayload -> [ok |-> TRUE, kind |-> "str", items |-> <<"a">>]
      [] tok = ObjectPayload -> [ok |-> TRUE, kind |-> "dict", items |-> <<"{'k': 1}">>]
      [] OTHER               -> [ok |-> FALSE, kind |-> "", items |-> <<>>]

\* str.strip()
RECURSIVE LStrip(_)
LStrip(t) == IF t # <<>> /\ Head(t) \in WhiteSpace THEN LStrip(Tail(t)) ELSE t

RECURSIVE RStrip(_)
RStrip(t) ==
    IF t # <<>> /\ t[Len(t)] \in WhiteSpace THEN RStrip(SubSeq(t, 1, Len(t) - 1)) ELSE t

Strip(t) == RStrip(LStrip(t))

StartsWith(t, p) == Len(t) >= Len(p) /\ SubSeq(t, 1, Len(p)) = p
EndsWith(t, p) == Len(t) >= Len(p) /\ SubSeq(t, Len(t) - Len(p) + 1, Len(t)) = p

\* json.loads(text): white space around the value is allowed, anything else
\* than one value is a JSONDecodeError
JsonLoadsTokens(t) ==
    IF Len(Strip(t)) = 1 THEN JsonValue(Strip(t)[1])
    ELSE [ok |-> FALSE, kind |-> "", items |-> <<>>]

\* a _parse_response that leaves the closing fence in place
ParseResponseKeepSuffix(text) ==
    LET t0 == Strip(text)
        t1 == IF StartsWith(t0, <<Fence, "json">>) THEN SubSeq(t0, 3, Len(t0)) ELSE t0
        t2 == IF StartsWith(t1, <<Fence>>) THEN SubSeq(t1, 2, Len(t1)) ELSE t1
        parsed == JsonLoadsTokens(Strip(t2))
    IN  [ok |-> parsed.ok, updates |-> parsed.items]

\* CommitSummarizer._parse_response: [ok |-> it returned, updates |-> the list]
ParseResponse(text) ==
    LET t0 == Strip(text)
        t1 == IF StartsWith(t0, <<Fence, "json">>) THEN SubSeq(t0, 3, Len(t0)) ELSE t0
        t2 == IF StartsWith(t1, <<Fence>>) THEN SubSeq(t1, 2, Len(t1)) ELSE t1
        t3 == IF EndsWith(t2, <<Fence>>) THEN SubSeq(t2, 1, Len(t2) - 1) ELSE t2
        parsed == JsonLoadsTokens(Strip(t3))
    IN  [ok |-> parsed.ok, updates |-> parsed.items]

(***************************************************************************)
(* investor_bot CommitSummarizer.analyze_and_split.                        *)
(***************************************************************************)
MAX_RETRIES == 3
RETRY_DELAY_SECONDS == 5

FALLBACK_MESSAGE ==
    <<"Infrastructure Enhancement: Our team completed performance optimizations on core system modules today. These improvements will enhance the overall user experience.">>

InvalidArgumentError == Exc("InvalidArgument", "400 INVALID_ARGUMENT: bad request")

InvestorTexts == {<<ArrayPayload>>,
                  <<Fence, "json", "\n", ArrayPayload, "\n", Fence>>,
                  <<BrokenPayload>>}

InvestorOutcomes == {Resp(t) : t \in InvestorTexts} \cup {QuotaError}

\* the API errors _try_generate_with_model has a clause for, and one good answer
InvestorApiOutcomes == {QuotaError, NotFoundError, InvalidArgumentError,
                        Resp(<<ArrayPayload>>)}

InvestorSuccess(u) ==
    [kind |-> "success", text |-> "", model |-> Bare(""), updates |-> u]

InvestorFallback ==
    [kind |-> "failure", text |-> "", model |-> Bare(""), updates |-> FALLBACK_MESSAGE]

\* the except clauses of _try_generate_with_model: NotFound, ResourceExhausted,
\* InvalidArgument, json.JSONDecodeError, Exception
CaughtInvestor(out) ==
    \/ out.exc \in {"NotFound", "ResourceExhausted", "InvalidArgument"}
    \/ out.exc = "JSONDecodeError"
    \/ out.exc \in ExceptionClasses

\* What the try block of _try_generate_with_model ends with: the exception of
\* generate_content, the JSONDecodeError of _parse_response, or the response.
InvestorTry(out) ==
    IF out.exc = "" /\ ~ParseResponse(out.text).ok
    THEN Exc("JSONDecodeError", "Expecting value") ELSE out

\* a loop that gives up after its first pass over the models
MorePassesNever(a) == FALSE

\* for attempt in range(self.MAX_RETRIES)
MorePasses(a) == a + 1 < MAX_RETRIES

\* time.sleep(self.RETRY_DELAY_SECONDS * attempt) before the passes after the first
PassDelay(a) == IF a > 0 THEN RETRY_DELAY_SECONDS * a ELSE 0

\* analyze_and_split up to the first call: the prompt is built and the models
\* are read (and discovered, at the first read).
StartInvestor(listing) ==
    /\ bot = "investor" /\ pc # "run" /\ nreq < MaxRequests
    /\ nreq' = nreq + 1
    /\ calls' = <<>>
    /\ raised' = FALSE
    /\ attempt' = 0
    /\ idx' = FirstIndex
    /\ LET available == IF loaded THEN models ELSE DiscoverModels(listing)
       IN  /\ models' = available
           /\ chain' = available
    /\ loaded' = TRUE
    /\ result' = NoResult
    /\ pc' = "run"
    /\ UNCHANGED <<bot, hasKey, now, lastFetch, retries, prevWinner>>
    /\ UNCHANGED <<request, probeVars, handlerVars>>

\* One _try_generate_with_model call and what analyze_and_split does with it.
GenerateInvestor(out) ==
    /\ bot = "investor" /\ pc = "run"
    /\ calls' = Append(calls, [model |-> CandidateAt(idx), idx |-> idx, attempt |-> attempt,
                               out |-> out,
                               sleep |-> IF idx = 1 THEN PassDelay(attempt) ELSE 0])
    /\ IF InvestorTry(out).exc = ""
       THEN /\ result' = InvestorSuccess(ParseResponse(out.text).updates)
            /\ pc' = "done"
            /\ UNCHANGED <<idx, attempt, chain, raised>>
       ELSE IF ~CaughtInvestor(InvestorTry(out))
       THEN /\ raised' = TRUE
            /\ pc' = "done"
            /\ UNCHANGED <<idx, attempt, chain, result>>
       ELSE IF MoreCandidates(idx)
       THEN /\ idx' = NextIndex(idx)
            /\ UNCHANGED <<pc, attempt, chain, result, raised>>
       ELSE IF MorePasses(attempt)
       THEN /\ attempt' = attempt + 1
            /\ idx' = FirstIndex
            /\ chain' = models
            /\ UNCHANGED <<pc, result, raised>>
       ELSE /\ result' = InvestorFallback
            /\ pc' = "done"
            /\ UNCHANGED <<idx, attempt, chain, raised>>
    /\ UNCHANGED <<bot, hasKey, models, loaded, now, lastFetch, retries, nreq,
                   prevWinner>>
    /\ UNCHANGED <<request, probeVars, handlerVars>>

(***************************************************************************)
(* investor_bot InvestorBot.run_daily_task, with PersistenceManager and    *)
(* GitHubService.  The loop runs one coroutine at a time and switches only *)
(* at an await that suspends, which in run_daily_task is the Telegram send *)
(* of _send_formatted_update; a run is therefore two steps, one up to the  *)
(* send and one from its completion on.  The state file is taken to be     *)
(* readable and writable.                                                  *)
(***************************************************************************)
MaxCommits == 3
MaxRuns == 4
MaxParts == 2

None == ""

\* the commits of the repository in the order they were made
Shas == <<"c1", "c2", "c3", "c4", "c5">>

\* position of a commit in that order
Chrono(sha) == CHOOSE i \in 1..Len(Shas) : Shas[i] = sha

\* the coroutines that call run_daily_task: the task created by
\* scheduler_loop, and the /trigger handler
Tasks == {"scheduler", "trigger"}

\* an update message; the state file and Telegram hold the text only, the
\* commit and the position in the summary are kept for the properties
Update(sha, part, text) == [sha |-> sha, part |-> part, text |-> text]
NoUpdate == Update(None, 0, "")

IdleTask == [pc |-> "idle", msg |-> NoUpdate, sha |-> None]

\* PersistenceManager.DEFAULT_STATE
DEFAULT_STATE == [last_processed_sha |-> None, pending_updates |-> <<>>]

\* an entry of the journal kept for the properties:
\*   "fetch"      get_all_commits was called (ok: it returned commits)
\*   "summarise"  analyze_and_split was called for sha (part: updates returned)
\*   "queue"      set_pending_updates stored updates of sha (part: how many)
\*   "send"       send_message was awaited for the update (ok: delivered)
\*   "mark"       update_last_processed_sha(sha)
Event(ev, t, msg, ok) ==
    [ev |-> ev, task |-> t, sha |-> msg.sha, part |-> msg.part, text |-> msg.text,
     ok |-> ok]

Reverse(s) == [i \in 1..Len(s) |-> s[Len(s) + 1 - i]]

\* PersistenceManager, st being the state load_state returns (DEFAULT_STATE while
\* there is no state file) and the result's state the one save_state writes; the
\* state file is taken to be read and written without error.
\* update_last_processed_sha
UpdateLastProcessedSha(st, sha) ==
    [state |-> [st EXCEPT !.last_processed_sha = sha], ret |-> <<TRUE>>]

\* set_pending_updates
SetPendingUpdates(st, updates) ==
    [state |-> [st EXCEPT !.pending_updates = updates], ret |-> <<TRUE>>]

\* a queue that hands out its newest item: updates.pop()
PopNextUpdateNewest(st) ==
    LET updates == st.pending_updates
    IN  IF updates = <<>> THEN [state |-> st, ret |-> <<NoUpdate>>]
        ELSE [state |-> [st EXCEPT !.pending_updates = SubSeq(updates, 1, Len(updates) - 1)],
              ret |-> <<updates[Len(updates)]>>]

\* pop_next_update; NoUpdate stands for the None of an empty queue, which
\* returns before save_state
PopNextUpdate(st) ==
    LET updates == st.pending_updates
    IN  IF updates = <<>> THEN [state |-> st, ret |-> <<NoUpdate>>]
        ELSE [state |-> [st EXCEPT !.pending_updates = Tail(updates)],
              ret |-> <<Head(updates)>>]

\* clear_pending_updates
ClearPendingUpdates(st) ==
    [state |-> [st EXCEPT !.pending_updates = <<>>], ret |-> <<TRUE>>]

\* a history handed on as the API lists it
GetAllCommitsNewestFirst(r) == r

\* GitHubService.get_all_commits: repo.get_commits() lists the newest commit
\* first, commit_data[::-1] turns the list round
GetAllCommits(r) == Reverse(r)

\* InvestorBot._find_next_commit
FindNextCommit(commits, last_sha) ==
    IF commits = <<>> THEN None
    ELSE IF last_sha = None THEN commits[1]
    ELSE LET hits == {i \in 1..Len(commits) :
                        commits[i] = last_sha /\ i + 1 < Len(commits) + 1}
         IN  IF hits = {} THEN None
             ELSE commits[(CHOOSE i \in hits : \A j \in hits : i <= j) + 1]

\* what analyze_and_split can return: the parsed answer of a model, a list of
\* 0..MaxParts updates, or, when every model failed, FALLBACK_MESSAGE
Summaries == [fails : {TRUE}, parts : {0}] \cup [fails : {FALSE}, parts : 0..MaxParts]

\* analyze_and_split: alias tells that the list returned is the list object
\* bound to CommitSummarizer.FALLBACK_MESSAGE (return self.FALLBACK_MESSAGE)
AnalyzeAndSplit(sha, summary, fallback) ==
    IF summary.fails
    THEN [alias |-> TRUE,
          updates |-> [i \in 1..Len(fallback) |-> Update(sha, i, fallback[i])]]
    ELSE [alias |-> FALSE,
          updates |-> [i \in 1..summary.parts |-> Update(sha, i, "update")]]

\* a run that never looks at the queue
QueueFirstNever(pending) == FALSE

\* run_daily_task: if pending_updates
QueueFirst(pending) == pending # <<>>

\* a commit marked whatever the delivery did
MarkProcessedAlways(success) == TRUE

\* _process_new_commits: if success
MarkProcessed(success) == success

\* run_daily_task up to the awaited send.  fetched, detailed: whether the
\* GitHub calls answered; summary: what analyze_and_split returns.
RunDailyTask(t, fetched, detailed, summary) ==
    /\ bot = "daily" /\ tasks[t].pc = "idle" /\ nruns < MaxRuns
    /\ nruns' = nruns + 1
    /\ IF QueueFirst(state.pending_updates)
       THEN \* _process_queued_update: pop_next_update, then the send
            /\ state' = PopNextUpdate(state).state
            /\ tasks' = [tasks EXCEPT ![t] = [pc |-> "send_queued",
                                              msg |-> PopNextUpdate(state).ret[1],
                                              sha |-> None]]
            /\ UNCHANGED <<journal, fallback_message>>
       ELSE \* _process_new_commits
            LET commits == IF fetched THEN GetAllCommits(repo) ELSE <<>>
                sha == FindNextCommit(commits, state.last_processed_sha)
                answer == AnalyzeAndSplit(sha, summary, fallback_message)
                updates == answer.updates
                rest == Tail(updates)
                fetch == Event("fetch", t, NoUpdate, commits # <<>>)
                summarise == Event("summarise", t, Update(sha, Len(updates), ""), TRUE)
                queue == Event("queue", t, Update(sha, Len(rest), ""), TRUE)
            IN  IF commits = <<>> \/ sha = None \/ ~detailed
                THEN /\ journal' = Append(journal, fetch)
                     /\ UNCHANGED <<state, tasks, fallback_message>>
                ELSE IF updates = <<>>
                THEN \* _distribute_updates: if not updates: return False
                     /\ journal' = journal \o <<fetch, summarise>>
                     /\ UNCHANGED <<state, tasks, fallback_message>>
                ELSE \* first_update = updates.pop(0); set_pending_updates(updates)
                     /\ journal' = journal \o <<fetch, summarise>>
                                   \o (IF rest # <<>> THEN <<queue>> ELSE <<>>)
                     /\ fallback_message' =
                            IF answer.alias THEN Tail(fallback_message)
                            ELSE fallback_message
                     /\ state' = IF rest # <<>>
                                 THEN SetPendingUpdates(state, rest).state
                                 ELSE state
                     /\ tasks' = [tasks EXCEPT ![t] = [pc |-> "send_first",
                                                       msg |-> Head(updates),
                                                       sha |-> sha]]
    /\ UNCHANGED repo
    /\ UNCHANGED <<routerVars, probeVars, moderationVars>>

\* The awaited send_message returns (ok: delivered), and the run goes on to
\* its end: _process_new_commits marks the commit if the send succeeded.
SendFormattedUpdate(t, ok) ==
    /\ bot = "daily" /\ tasks[t].pc \in {"send_queued", "send_first"}
    /\ LET marked == tasks[t].pc = "send_first" /\ MarkProcessed(ok)
       IN  /\ journal' = journal \o <<Event("send", t, tasks[t].msg, ok)>>
                         \o (IF marked
                             THEN <<Event("mark", t, Update(tasks[t].sha, 0, ""), TRUE)>>
                             ELSE <<>>)
           /\ state' = IF marked
                       THEN UpdateLastProcessedSha(state, tasks[t].sha).state
                       ELSE state
    /\ tasks' = [tasks EXCEPT ![t] = IdleTask]
    /\ UNCHANGED <<repo, fallback_message, nruns>>
    /\ UNCHANGED <<routerVars, probeVars, moderationVars>>

\* a commit is pushed to the repository
Push ==
    /\ bot = "daily" /\ Len(repo) < MaxCommits
    /\ repo' = <<Shas[Len(repo) + 1]>> \o repo
    /\ UNCHANGED <<state, fallback_message, tasks, journal, nruns>>
    /\ UNCHANGED <<routerVars, probeVars, moderationVars>>

\* the bot before its first run, on an empty repository
DailyIdle ==
    /\ repo = <<>>
    /\ state = DEFAULT_STATE
    /\ fallback_message = FALLBACK_MESSAGE
    /\ tasks = [t \in Tasks |-> IdleTask]
    /\ journal = <<>>
    /\ nruns = 0

(***************************************************************************)
(* telegram_bot: a text message of a group goes to moderation_handler      *)
(* (handler group 1) and then, unless the dispatch was stopped, to         *)
(* ai_chat_handler (group 2).  The application handles one update at a     *)
(* time.  The messages are those of one sender.                            *)
(***************************************************************************)
FLOOD_LIMIT == 5
FLOOD_WINDOW == 10
MaxMessages == 7

Users == {"u1"}

\* seconds between two messages
Gaps == {1, FLOOD_WINDOW}

ChatStatuses == {"creator", "administrator", "member"}

\* a message without violation, with a link outside the whitelist, with a
\* blacklisted word
TextKinds == {"clean", "link", "badword"}

\* A message and the answers the Telegram API gives while it is handled:
\* lookup (get_chat_member answers), restrict, delete and reply (the call
\* succeeds).
Messages == [user : Users, status : ChatStatuses, lookup : BOOLEAN, text : TextKinds,
             restrict : BOOLEAN, delete : BOOLEAN, reply : BOOLEAN]

NoDispatch == [pc |-> "none", n |-> 0, admin |-> FALSE, spam |-> FALSE, muted |-> FALSE,
               analysed |-> FALSE, stopped |-> FALSE, ai |-> FALSE]

\* check_flood: [log |-> the sender's timestamps afterwards, spam |-> the result]
CheckFlood(log, current_time) ==
    LET pruned == SelectSeq(log, LAMBDA t : t > current_time - FLOOD_WINDOW)
        appended == Append(pruned, current_time)
    IN  [log |-> appended, spam |-> Len(appended) > FLOOD_LIMIT]

\* the exceptions of a handler body: ApplicationHandlerStop is a subclass of
\* Exception, as are the errors of the API calls
HandlerExceptions == {"ApplicationHandlerStop", "TelegramError"}

\* except Exception as e, around the flood branch
CaughtFloodMute(exc) == exc \in HandlerExceptions

\* moderation_handler for one message, gap seconds after the previous one
ModerationHandler(m, gap) ==
    /\ bot = "moderation" /\ update.pc # "group2" /\ update.n < MaxMessages
    /\ clock' = clock + gap
    /\ LET admin == m.lookup /\ m.status \in {"creator", "administrator"}
           flood == CheckFlood(user_flood_log[m.user], clock')
           \* the try of the flood branch: restrict, delete, reply, then
           \* raise ApplicationHandlerStop()
           exc == IF ~m.restrict \/ ~m.delete \/ ~m.reply THEN "TelegramError"
                  ELSE "ApplicationHandlerStop"
           stoppedByFlood == flood.spam /\ ~CaughtFloodMute(exc)
                             /\ exc = "ApplicationHandlerStop"
           analysed == ~admin /\ ~stoppedByFlood
           violation == m.text \in {"link", "badword"}
           \* the warning is sent before the message is deleted and the stop is
           \* raised; an error of the warning leaves the handler
           stoppedByContent == analysed /\ violation /\ m.reply
           stopped == stoppedByFlood \/ stoppedByContent
       IN  /\ user_flood_log' = IF admin THEN user_flood_log
                                ELSE [user_flood_log EXCEPT ![m.user] = flood.log]
           /\ update' = [pc |-> IF stopped THEN "done" ELSE "group2",
                         n |-> update.n + 1,
                         admin |-> admin,
                         spam |-> ~admin /\ flood.spam,
                         muted |-> ~admin /\ flood.spam /\ m.restrict,
                         analysed |-> analysed,
                         stopped |-> stopped,
                         ai |-> FALSE]
    /\ UNCHANGED <<routerVars, probeVars, dailyVars>>

\* ai_chat_handler receives the message
AiChatHandler ==
    /\ bot = "moderation" /\ update.pc = "group2"
    /\ update' = [update EXCEPT !.pc = "done", !.ai = TRUE]
    /\ UNCHANGED <<user_flood_log, clock>>
    /\ UNCHANGED <<routerVars, probeVars, dailyVars>>

ModerationIdle ==
    /\ user_flood_log = [u \in Users |-> <<>>]
    /\ clock = 0
    /\ update = NoDispatch

\* the handlers before their first update
HandlersIdle == DailyIdle /\ ModerationIdle

(***************************************************************************)
(* The discovery functions taken alone: a listing is drawn, and one of the *)
(* functions is applied to it.  Here the endpoint may also list a model    *)
(* twice, and a model that is no Gemini model.                             *)
(***************************************************************************)
ProbeCatalogue == Catalogue \cup {ApiModel("embedding-001", FALSE)}

ProbeListings == {NoListing}
                 \cup {[raises |-> FALSE, items |-> s] :
                         s \in SeqsUpTo(ProbeCatalogue, MaxProbe)}

NotProbed == [fn |-> "", out |-> <<>>]

RouterIdle ==
    /\ hasKey = TRUE
    /\ models = <<>>
    /\ loaded = FALSE
    /\ now = EpochStart
    /\ lastFetch = 0
    /\ pc = "idle"
    /\ retries = DEFAULT_RETRIES
    /\ chain = <<>>
    /\ idx = 0
    /\ attempt = 0
    /\ calls = <<>>
    /\ result = NoResult
    /\ raised = FALSE
    /\ nreq = 0
    /\ prevWinner = <<>>
    /\ request = NoRequest

\* select_newest_model on an empty cache
ProbeSelectNewest ==
    /\ probed = NotProbed
    /\ probed' = [fn |-> "select_newest_model",
                 out |-> <<SelectNewestModel(ListModels(<<>>, probe).ret)>>]
    /\ UNCHANGED <<probe, routerVars, handlerVars>>

\* list_models on an empty cache
ProbeListModels ==
    /\ probed = NotProbed
    /\ probed' = [fn |-> "list_models", out |-> ListModels(<<>>, probe).ret]
    /\ UNCHANGED <<probe, routerVars, handlerVars>>

ProbeFetchAndRank ==
    /\ probed = NotProbed
    /\ probed' = [fn |-> "_fetch_and_rank_models", out |-> FetchAndRankModels(probe)]
    /\ UNCHANGED <<probe, routerVars, handlerVars>>

ProbeDiscover ==
    /\ probed = NotProbed
    /\ probed' = [fn |-> "discover_models", out |-> DiscoverModels(probe)]
    /\ UNCHANGED <<probe, routerVars, handlerVars>>

ProbeInitialize ==
    /\ probed = NotProbed
    /\ probed' = [fn |-> "initialize", out |-> Initialize(<<>>, TRUE, probe)]
    /\ UNCHANGED <<probe, routerVars, handlerVars>>

DiscoveryInit ==
    /\ bot = "discovery"
    /\ RouterIdle
    /\ probe \in ProbeListings
    /\ probed = NotProbed
    /\ HandlersIdle

DiscoveryNext ==
    \/ ProbeSelectNewest
    \/ ProbeListModels
    \/ ProbeFetchAndRank
    \/ ProbeDiscover
    \/ ProbeInitialize

SpecDiscovery == DiscoveryInit /\ [][DiscoveryNext]_vars

\* twitter_bot's list_models called again and again, one call after the other:
\* probe is what the listing endpoint answers (or would answer) to the call,
\* probed is <<the list returned, whether the endpoint was called>>
CallListModels(listing) ==
    /\ bot = "listing"
    /\ LET lm == ListModels(models, listing)
       IN  /\ models' = lm.cache
           /\ probed' = [fn |-> "list_models", out |-> <<lm.ret, lm.contacted>>]
    /\ probe' = listing
    /\ UNCHANGED <<bot, hasKey, loaded, now, lastFetch, pc, retries, chain, idx, attempt,
                   calls, result, raised, nreq, prevWinner, request, handlerVars>>

ListingInit ==
    /\ bot = "listing"
    /\ RouterIdle
    /\ probe = NoListing
    /\ probed = NotProbed
    /\ HandlersIdle

ListingNext == \E l \in Listings : CallListModels(l)

SpecListing == ListingInit /\ [][ListingNext]_vars

(***************************************************************************)
(* The scoring functions taken alone, on pairs of synthetic identifiers    *)
(* "gemini-<version>-<tags>": a version and the tags the function tests.   *)
(***************************************************************************)
\* ten times the version numbers
Versions == {10, 15, 20}

TelegramTags == {"pro", "flash", "latest", "preview", "lite", "8b"}
ChainTags == {"pro", "flash", "ultra", "preview", "vision"}
InvestorTags == {"ultra", "pro", "flash", "nano", "preview"}

Synthetic(tags) == [ver : Versions, tags : SUBSET tags]

\* the patterns that occur in a synthetic identifier
SubsOf(id) == {"gemini"} \cup id.tags

\* the pairs of identifiers a scoring function is applied to
ScoringPairs(fn, tags) == [fn : {fn}, a : Synthetic(tags), b : Synthetic(tags)]

ProbeModelScorer ==
    /\ probed = NotProbed /\ probe.fn = "model_scorer"
    /\ probed' = [fn |-> "model_scorer",
                  out |-> <<ModelScore(probe.a.ver, SubsOf(probe.a)),
                            ModelScore(probe.b.ver, SubsOf(probe.b))>>]
    /\ UNCHANGED <<probe, routerVars, handlerVars>>

ProbeCalculateScore ==
    /\ probed = NotProbed /\ probe.fn = "_calculate_model_score"
    /\ probed' = [fn |-> "_calculate_model_score",
                  out |-> <<ChainScore(probe.a.ver, SubsOf(probe.a)),
                            ChainScore(probe.b.ver, SubsOf(probe.b))>>]
    /\ UNCHANGED <<probe, routerVars, handlerVars>>

ProbeSortKey ==
    /\ probed = NotProbed /\ probe.fn = "sort_key"
    /\ probed' = [fn |-> "sort_key",
                  out |-> <<SortKey(ModelInfo("a", probe.a.ver, SubsOf(probe.a))),
                            SortKey(ModelInfo("b", probe.b.ver, SubsOf(probe.b)))>>]
    /\ UNCHANGED <<probe, routerVars, handlerVars>>

ScoringInit ==
    /\ bot = "scoring"
    /\ RouterIdle
    /\ \/ probe \in ScoringPairs("model_scorer", TelegramTags)
       \/ probe \in ScoringPairs("_calculate_model_score", ChainTags)
       \/ probe \in ScoringPairs("sort_key", InvestorTags)
    /\ probed = NotProbed
    /\ HandlersIdle

ScoringNext ==
    \/ ProbeModelScorer
    \/ ProbeCalculateScore
    \/ ProbeSortKey

SpecScoring == ScoringInit /\ [][ScoringNext]_vars

(***************************************************************************)
(* _parse_response taken alone, on the text of a payload as a model writes *)
(* it: bare, in a fence opened with the word json, or in a plain fence,    *)
(* with white space before it, after it, and inside the fence.             *)
(***************************************************************************)
MaxPad == 1

Payloads == {ArrayPayload, EmptyArrayPayload, SingleArrayPayload, FenceArrayPayload,
             StringPayload, ObjectPayload, BrokenPayload}

ArrayPayloads == {p \in Payloads : JsonValue(p).ok /\ JsonValue(p).kind = "list"}

FenceStyles == {"json", "plain", "bare"}

Padding == SeqsUpTo(WhiteSpace, MaxPad)

\* the text a model writes for a payload
Wrapped(w) ==
    CASE w.style = "json"  -> w.pre \o <<Fence, "json">> \o w.open \o <<w.payload>>
                              \o w.close \o <<Fence>> \o w.post
      [] w.style = "plain" -> w.pre \o <<Fence>> \o w.open \o <<w.payload>>
                              \o w.close \o <<Fence>> \o w.post
      [] OTHER             -> w.pre \o <<w.payload>> \o w.post

ProbeParseResponse ==
    /\ probed = NotProbed /\ probe.fn = "_parse_response"
    /\ probed' = [fn |-> "_parse_response", out |-> <<ParseResponse(Wrapped(probe))>>]
    /\ UNCHANGED <<probe, routerVars, handlerVars>>

ParseInit ==
    /\ bot = "parse"
    /\ RouterIdle
    /\ probe \in [fn : {"_parse_response"}, style : FenceStyles, payload : Payloads,
                   pre : Padding, open : Padding, close : Padding, post : Padding]
    /\ probed = NotProbed
    /\ HandlersIdle

ParseNext == ProbeParseResponse

SpecParse == ParseInit /\ [][ParseNext]_vars

(***************************************************************************)
(* investor_bot's daily task: run after run (one coroutine), and with the  *)
(* scheduled task and a /trigger command in flight together.               *)
(***************************************************************************)
DailyInit ==
    /\ bot = "daily"
    /\ RouterIdle
    /\ probe = NoListing
    /\ probed = NotProbed
    /\ HandlersIdle

DailyNext ==
    \/ \E f, d \in BOOLEAN, s \in Summaries : RunDailyTask("scheduler", f, d, s)
    \/ \E ok \in BOOLEAN : SendFormattedUpdate("scheduler", ok)
    \/ Push

SpecDaily == DailyInit /\ [][DailyNext]_vars

OverlapNext ==
    \/ \E t \in Tasks, f, d \in BOOLEAN, s \in Summaries : RunDailyTask(t, f, d, s)
    \/ \E t \in Tasks, ok \in BOOLEAN : SendFormattedUpdate(t, ok)
    \/ Push

SpecOverlap == DailyInit /\ [][OverlapNext]_vars

\* PersistenceManager alone, its operations called in any order; the journal
\* keeps each call with its argument and what it returned
MaxOps == 5

Call(op, arg, ret) == [ev |-> op, arg |-> arg, ret |-> ret]

\* the lists a caller hands to set_pending_updates
PendingLists ==
    LET u1 == Update(Shas[1], 1, "u1")
        u2 == Update(Shas[1], 2, "u2")
    IN  {<<>>, <<u1>>, <<u1, u2>>, <<u2, u1>>}

Persist(op, arg, answer) ==
    /\ bot = "persistence" /\ Len(journal) < MaxOps
    /\ state' = answer.state
    /\ journal' = Append(journal, Call(op, arg, answer.ret))
    /\ UNCHANGED <<repo, fallback_message, tasks, nruns>>
    /\ UNCHANGED <<routerVars, probeVars, moderationVars>>

CallUpdateLastProcessedSha(sha) ==
    Persist("update_last_processed_sha", <<sha>>, UpdateLastProcessedSha(state, sha))

CallSetPendingUpdates(updates) ==
    Persist("set_pending_updates", updates, SetPendingUpdates(state, updates))

CallPopNextUpdate == Persist("pop_next_update", <<>>, PopNextUpdate(state))

CallClearPendingUpdates == Persist("clear_pending_updates", <<>>, ClearPendingUpdates(state))

\* get_last_processed_sha, get_pending_updates, get_queue_length
CallGetters ==
    Persist("get", <<>>, [state |-> state,
                          ret |-> <<state.last_processed_sha, state.pending_updates,
                                    Len(state.pending_updates)>>])

PersistenceInit ==
    /\ bot = "persistence"
    /\ RouterIdle
    /\ probe = NoListing
    /\ probed = NotProbed
    /\ HandlersIdle

PersistenceNext ==
    \/ \E sha \in {Shas[1], Shas[2]} : CallUpdateLastProcessedSha(sha)
    \/ \E updates \in PendingLists : CallSetPendingUpdates(updates)
    \/ CallPopNextUpdate
    \/ CallClearPendingUpdates
    \/ CallGetters

SpecPersistence == PersistenceInit /\ [][PersistenceNext]_vars

(***************************************************************************)
(* telegram_bot's message pipeline.                                        *)
(***************************************************************************)
ModerationInit ==
    /\ bot = "moderation"
    /\ RouterIdle
    /\ probe = NoListing
    /\ probed = NotProbed
    /\ HandlersIdle

ModerationNext ==
    \/ \E m \in Messages, gap \in Gaps : ModerationHandler(m, gap)
    \/ AiChatHandler

SpecModeration == ModerationInit /\ [][ModerationNext]_vars

\* telegram_bot's welcome_new_member: the loop over new_chat_members, one joining
\* user at a step; the journal keeps the calls made to the Telegram API
MaxJoin == 2

\* A joining user and the answers the Telegram API gives while the loop handles
\* it: kind (a person, another bot, the bot itself), status (the chat status),
\* lookup (get_chat_member answers), greet (the reply to an admin is sent),
\* restrict (what restrict_chat_member ends with), reply (any later reply_text
\* is sent).
RestrictOutcomes == {"ok", "Forbidden", "BadRequest"}

Joiners ==
    [kind : {"user"}, status : ChatStatuses, lookup : BOOLEAN, greet : BOOLEAN,
     restrict : RestrictOutcomes, reply : BOOLEAN]
    \cup [kind : {"bot"}, status : {"member"}, lookup : {TRUE}, greet : {TRUE},
          restrict : {"ok"}, reply : {TRUE}]
    \cup [kind : {"self"}, status : {"member", "administrator"}, lookup : BOOLEAN,
          greet : {TRUE}, restrict : {"ok"}, reply : BOOLEAN]

\* one pass of the loop for user m, the n-th of the message:
\* [calls |-> the API calls made, raised |-> an exception left the handler]
WelcomeMember(m, n) ==
    LET who == <<n, m.kind, m.status>>
        lookup == Call("get_chat_member", who, <<m.lookup>>)
        greet == Call("reply_text", who \o <<"Welcome Boss">>, <<m.greet>>)
        restrict == Call("restrict_chat_member", who \o <<"RESTRICTED_PERMISSIONS">>,
                         <<m.restrict>>)
        challenge == Call("reply_text", who \o <<"Security Alert">>, <<m.reply>>)
        critical == Call("reply_text", who \o <<"Critical Error">>, <<m.reply>>)
        online == Call("reply_text", who \o <<"TOPI is online">>, <<m.reply>>)
        \* Step 3, its exceptions caught but for the reply of except Forbidden
        verify == IF m.restrict = "ok" THEN [calls |-> <<restrict, challenge>>, raised |-> FALSE]
                  ELSE IF m.restrict = "Forbidden"
                  THEN [calls |-> <<restrict, critical>>, raised |-> ~m.reply]
                  ELSE [calls |-> <<restrict>>, raised |-> FALSE]
    IN  IF m.kind = "bot" THEN [calls |-> <<>>, raised |-> FALSE]
        ELSE IF m.kind = "self"
        THEN [calls |-> IF m.lookup THEN <<lookup, online>> ELSE <<lookup>>,
              raised |-> FALSE]
        \* Step 2: the continue is reached when the lookup and the reply both
        \* return; an exception of either is logged and Step 3 follows
        ELSE IF m.lookup /\ m.status \in {"creator", "administrator"}
        THEN IF m.greet THEN [calls |-> <<lookup, greet>>, raised |-> FALSE]
             ELSE [calls |-> <<lookup, greet>> \o verify.calls, raised |-> verify.raised]
        ELSE [calls |-> <<lookup>> \o verify.calls, raised |-> verify.raised]

WelcomeNewMember(m) ==
    /\ bot = "welcome" /\ nruns < MaxJoin /\ update.pc # "raised"
    /\ nruns' = nruns + 1
    /\ LET pass == WelcomeMember(m, nruns + 1)
       IN  /\ journal' = journal \o pass.calls
           /\ update' = [update EXCEPT !.pc = IF pass.raised THEN "raised" ELSE "loop"]
    /\ UNCHANGED <<repo, state, fallback_message, tasks, user_flood_log, clock>>
    /\ UNCHANGED <<routerVars, probeVars>>

WelcomeInit ==
    /\ bot = "welcome"
    /\ RouterIdle
    /\ probe = NoListing
    /\ probed = NotProbed
    /\ HandlersIdle

WelcomeNext == \E m \in Joiners : WelcomeNewMember(m)

SpecWelcome == WelcomeInit /\ [][WelcomeNext]_vars

(***************************************************************************)
(* The specification.                                                      *)
(***************************************************************************)
Init ==
    /\ bot \in Bots
    /\ hasKey \in (IF bot \in {"twitter", "telegram"} THEN BOOLEAN ELSE {TRUE})
    /\ models = <<>>
    /\ loaded = FALSE
    /\ now = EpochStart
    /\ lastFetch = 0
    /\ pc = "idle"
    /\ retries = DEFAULT_RETRIES
    /\ chain = <<>>
    /\ idx = 0
    /\ attempt = 0
    /\ calls = <<>>
    /\ result = NoResult
    /\ raised = FALSE
    /\ nreq = 0
    /\ prevWinner = <<>>
    /\ request = NoRequest
    /\ probe = NoListing
    /\ probed = NotProbed
    /\ HandlersIdle

\* The listing endpoint answers only when it is called: a request that does not
\* call it has one listing to choose from.
ListingsIf(called) == IF called THEN Listings ELSE {NoListing}

Next ==
    \/ \E l \in ListingsIf(hasKey /\ models = <<>>), r \in 1..DEFAULT_RETRIES :
          StartTwitter(l, r, TwitterDefaultRequest)
    \/ \E o \in Outcomes : GenerateTwitter(o)
    \/ \E l \in ListingsIf(hasKey /\ models = <<>>) : StartTelegram(l, TelegramChatRequest)
    \/ \E o \in Outcomes : GenerateTelegram(o)
    \/ \E l \in ListingsIf(MustFetch(models, lastFetch, now)) :
          StartDraft(l)
    \/ \E o \in Outcomes : GenerateDraft(o)
    \/ Tick
    \/ \E l \in ListingsIf(MustFetch(models, lastFetch, now)) : ConcurrentGetModels(l)
    \/ \E l \in ListingsIf(hasKey /\ models = <<>>) : ConcurrentInitialize(l)
    \/ \E l \in Listings : AvailableModels(l)
    \/ \E l \in Listings : RefreshModels(l)
    \/ \E l \in ListingsIf(~loaded) : StartInvestor(l)
    \/ \E o \in InvestorOutcomes : GenerateInvestor(o)

Spec == Init /\ [][Next]_vars

\* CommitSummarizer.analyze_and_split alone, its models failing with each of the
\* API errors
InvestorInit == Init /\ bot = "investor"

InvestorNext ==
    \/ \E l \in ListingsIf(~loaded) : StartInvestor(l)
    \/ \E o \in InvestorApiOutcomes : GenerateInvestor(o)

SpecInvestor == InvestorInit /\ [][InvestorNext]_vars

\* The twitter_bot and telegram_bot routers alone, called with each of the
\* requests
RequestInit == Init /\ bot \in {"twitter", "telegram"}

RequestNext ==
    \/ \E l \in ListingsIf(hasKey /\ models = <<>>), req \in TwitterRequests :
          StartTwitter(l, DEFAULT_RETRIES, req)
    \/ \E o \in Outcomes : GenerateTwitter(o)
    \/ \E l \in ListingsIf(hasKey /\ models = <<>>), req \in TelegramRequests :
          StartTelegram(l, req)
    \/ \E o \in Outcomes : GenerateTelegram(o)

SpecRequest == RequestInit /\ [][RequestNext]_vars

\* telegram_bot's router alone, its models failing with each of the classes its
\* except clauses name
TelegramOutcomes == Outcomes \cup {InvalidArgumentError,
                                   Exc("ServiceUnavailable", "503 UNAVAILABLE: overloaded")}

TelegramInit == Init /\ bot = "telegram"

TelegramNext ==
    \/ \E l \in ListingsIf(hasKey /\ models = <<>>) : StartTelegram(l, TelegramChatRequest)
    \/ \E o \in TelegramOutcomes : GenerateTelegram(o)
    \/ \E l \in ListingsIf(hasKey /\ models = <<>>) : ConcurrentInitialize(l)

SpecTelegram == TelegramInit /\ [][TelegramNext]_vars


(***************************************************************************)
(* Properties.                                                             *)
(***************************************************************************)
Executors == {"twitter", "telegram", "draft"}

IsQuota(out) == out.exc # "" /\ Marks(out.msg) \cap {"429", "RESOURCE_EXHAUSTED"} # {}
IsEmptyText(out) == out.exc = "" /\ out.text = ""
\* the call returned a text (GeminiService returns it as it is)
Answered(out) == out.exc = "" /\ out.text # ""

CallsTo(i) == Cardinality({n \in 1..Len(calls) : calls[n].idx = i})
Last == calls[Len(calls)]

\* C1: whatever the candidates and the listing call do (quota, transient or
\* unclassified exceptions, empty texts; the listing raising or listing nothing),
\* GeminiService._generate_with_retry raises nothing and returns a (text, model)
\* pair; when no call returned a text the pair is the failure outcome.
C1_NoThrow ==
    bot \in {"twitter", "telegram"} =>
        /\ ~raised
        /\ pc = "done" => result.kind \in {"success", "failure", "nokey"}
        /\ (pc = "done" /\ \A n \in 1..Len(calls) : ~Answered(calls[n].out)) =>
              result = (IF bot = "telegram" THEN TelegramFailure
                        ELSE IF hasKey THEN TwitterFailure ELSE KeyMissing)

C1_Witness ==
    /\ bot = "twitter" /\ pc = "done" /\ hasKey
    /\ models = <<>>
    /\ result = TwitterFailure
    /\ \E n \in 1..Len(calls) : calls[n].out = OtherError
    /\ \E n \in 1..Len(calls) : calls[n].out = TransientError
    /\ \E n \in 1..Len(calls) : IsEmptyText(calls[n].out)

\* C2: in twitter_bot, a call that fails with a quota error (429 /
\* RESOURCE_EXHAUSTED) is the last call to its candidate in the request, and the
\* next call goes to the next candidate; when that call returns a text, the
\* request returns that text and that model at once: after two calls in all when
\* the quota error came on the first call.
C2_QuotaSwitch ==
    bot = "twitter" =>
        \A n \in 1..Len(calls) : IsQuota(calls[n].out) =>
            /\ \A k \in (n+1)..Len(calls) : calls[k].idx # calls[n].idx
            /\ n < Len(calls) =>
                  /\ calls[n+1].idx = calls[n].idx + 1
                  /\ calls[n+1].model = chain[calls[n].idx + 1]
                  /\ Answered(calls[n+1].out) =>
                        /\ pc = "done"
                        /\ Len(calls) = n + 1
                        /\ result = Success(calls[n+1].out.text, chain[calls[n].idx + 1])
            /\ n = Len(calls) =>
                  IF calls[n].idx < Len(chain)
                  THEN pc = "run" /\ idx = calls[n].idx + 1 /\ attempt = 0
                  ELSE pc = "done" /\ result = TwitterFailure

C2_Witness ==
    /\ bot = "twitter" /\ pc = "done"
    /\ Len(calls) = 2
    /\ calls[1].out = QuotaError
    /\ calls[1].model = Bare("gemini-2.0-flash-exp")
    /\ Answered(calls[2].out)
    /\ result.kind = "success"
    /\ result.model = Bare("gemini-1.5-flash")

\* C3: in twitter_bot, no candidate is attempted more than `retries` times in a
\* request, and a candidate whose every call failed with a transient error has
\* had exactly `retries` attempts when the executor leaves it.
C3_BoundedRetry ==
    bot = "twitter" =>
        \A i \in 1..Len(chain) :
            /\ CallsTo(i) <= retries
            /\ ( /\ CallsTo(i) > 0
                 /\ \A n \in 1..Len(calls) :
                        calls[n].idx = i => calls[n].out = TransientError
                 /\ (idx > i \/ pc = "done") )
               => CallsTo(i) = retries

C3_Witness ==
    /\ bot = "twitter" /\ pc = "run" /\ retries = 3
    /\ Len(calls) = 4
    /\ \A n \in 1..3 : calls[n].idx = 1 /\ calls[n].out = TransientError
    /\ calls[4].idx = 2

\* how many of the first n calls went to the candidate the n-th call went to
NthCallToItsModel(n) ==
    Cardinality({k \in 1..n : calls[k].model = calls[n].model})

\* The scenario of C4 for a first model a and a second model b: every call to a
\* fails with a quota error; the first two calls to b fail with a transient
\* error and the third returns a text.
ScenarioFollowed(a, b) ==
    \A n \in 1..Len(calls) :
        /\ calls[n].model = a => calls[n].out = QuotaError
        /\ calls[n].model = b =>
              IF NthCallToItsModel(n) <= 2 THEN calls[n].out = TransientError
              ELSE Answered(calls[n].out)

AttemptsOn(m) == Cardinality({n \in 1..Len(calls) : calls[n].model = m})

C5_RetrySameWithBackoff ==
    bot = "twitter" =>
        \A n \in 1..Len(calls) : calls[n].out = TransientError =>
            /\ calls[n].attempt < retries
            /\ calls[n].sleep = 1 + calls[n].attempt
            /\ \A k \in (n+1)..Len(calls) :
                  (calls[k].idx = calls[n].idx /\ calls[k].out = TransientError)
                      => calls[k].sleep > calls[n].sleep
            /\ IF calls[n].attempt + 1 < retries
               THEN IF n < Len(calls)
                    THEN /\ calls[n+1].idx = calls[n].idx
                         /\ calls[n+1].attempt = calls[n].attempt + 1
                    ELSE pc = "run" /\ idx = calls[n].idx
                         /\ attempt = calls[n].attempt + 1
               ELSE IF n < Len(calls)
                    THEN calls[n+1].idx = calls[n].idx + 1 /\ calls[n+1].attempt = 0
                    ELSE IF calls[n].idx < Len(chain)
                         THEN pc = "run" /\ idx = calls[n].idx + 1 /\ attempt = 0
                         ELSE pc = "done" /\ result = TwitterFailure

C5_Witness ==
    /\ bot = "twitter" /\ retries = 3 /\ Len(calls) = 4
    /\ \A n \in 1..3 : /\ calls[n].idx = 1
                       /\ calls[n].out = TransientError
                       /\ calls[n].sleep = n
    /\ calls[4].idx = 2

\* no item of the listing is a Gemini model that supports generateContent
NoGenerativeGemini(l) ==
    \A i \in 1..Len(l.items) : ~(l.items[i].gen /\ "gemini" \in Subs(l.items[i].name.base))

\* no item of the listing is a Gemini model other than an embedding model
NoGeminiButEmbedding(l) ==
    \A i \in 1..Len(l.items) :
        ~("gemini" \in Subs(l.items[i].name.base)
          /\ "embedding" \notin Subs(l.items[i].name.base))

\* C6: discovery never hands over an empty candidate list; when the listing call
\* raises or lists no usable model, select_newest_model gives the fallback model,
\* discover_models gives FALLBACK_MODELS and _fetch_and_rank_models gives its
\* fallback list.
C6_SafeDefault ==
    /\ probed.fn \in {"select_newest_model", "_fetch_and_rank_models", "discover_models"}
          => probed.out # <<>>
    /\ (probed.fn = "select_newest_model" /\ (probe.raises \/ NoGenerativeGemini(probe)))
          => probed.out = <<Bare("gemini-1.5-flash")>>
    /\ (probed.fn = "discover_models" /\ (probe.raises \/ NoGenerativeGemini(probe)))
          => probed.out = <<Pref("gemini-2.0-flash"), Pref("gemini-1.5-pro"),
                            Pref("gemini-1.5-flash")>>
    /\ (probed.fn = "_fetch_and_rank_models" /\ probe.raises)
          => probed.out = <<Bare("gemini-1.5-pro"), Bare("gemini-1.5-flash"),
                            Bare("gemini-1.0-pro")>>
    /\ (probed.fn = "_fetch_and_rank_models" /\ ~probe.raises /\ NoGeminiButEmbedding(probe))
          => probed.out = <<Bare("gemini-1.5-pro"), Bare("gemini-1.5-flash")>>

C6_Witness ==
    /\ probed.fn = "discover_models"
    /\ ~probe.raises /\ Len(probe.items) = 2
    /\ NoGenerativeGemini(probe)
    /\ probed.out = FALLBACK_MODELS

Rotated(c, k) == [i \in 1..Len(c) |-> c[((i - 1 + k) % Len(c)) + 1]]

\* the index (from 0) in the chain of the model that answered the last
\* successful request, 0 before any success
StickyIndex ==
    IF prevWinner # <<>> /\ \E i \in 1..Len(chain) : chain[i] = prevWinner[1]
    THEN (CHOOSE i \in 1..Len(chain) : chain[i] = prevWinner[1]) - 1
    ELSE 0

\* the n-th call goes to the Place(n)-th candidate the request has tried
Place(n) == Cardinality({calls[k].idx : k \in 1..n})

Unclassified(out) ==
    /\ out.exc # ""
    /\ Marks(out.msg) = {}
    /\ out.exc \notin {"ResourceExhausted", "NotFound", "InvalidArgument",
                       "InternalServerError", "ServiceUnavailable"}

\* C10 as the spec states it: in twitter_bot an exception that is no quota, no
\* not-found and no transient server error makes the executor leave the
\* candidate at once, and does not reach the caller.
C10_Original ==
    bot = "twitter" =>
        /\ ~raised
        /\ \A n \in 1..Len(calls) : Unclassified(calls[n].out) =>
              /\ \A k \in (n+1)..Len(calls) : calls[k].idx # calls[n].idx
              /\ n = Len(calls) => (pc = "done" \/ idx > calls[n].idx)

\* C10 as the code has it: such an exception does not reach the caller, and it
\* is handled as a transient error is: a wait of 1 + attempt seconds, then the
\* next attempt on the same candidate while attempts remain, and the next
\* candidate only after the last attempt.
C10_UnclassifiedRetried ==
    bot = "twitter" =>
        /\ ~raised
        /\ \A n \in 1..Len(calls) : Unclassified(calls[n].out) =>
              /\ calls[n].sleep = 1 + calls[n].attempt
              /\ IF calls[n].attempt + 1 < retries
                 THEN IF n < Len(calls)
                      THEN /\ calls[n+1].idx = calls[n].idx
                           /\ calls[n+1].attempt = calls[n].attempt + 1
                      ELSE pc = "run" /\ idx = calls[n].idx
                 ELSE IF n < Len(calls)
                      THEN calls[n+1].idx = calls[n].idx + 1
                      ELSE pc = "done" \/ idx = calls[n].idx + 1

C10_Witness ==
    /\ bot = "twitter" /\ Len(calls) = 2
    /\ calls[1].out = OtherError
    /\ calls[2].idx = calls[1].idx
    /\ calls[2].attempt = 1

\* the call failed with one of the API errors _try_generate_with_model names
IsApiError(out) == out.exc \in {"ResourceExhausted", "NotFound", "InvalidArgument"}

Scorers == {"model_scorer", "_calculate_model_score", "sort_key"}

\* C12: of two identifiers that differ only in the version number after
\* "gemini-", the one with the higher version gets the strictly higher score
\* from model_scorer, from _calculate_model_score and from sort_key, whatever
\* tags both carry.
C12_MonotoneVersion ==
    (probed.fn \in Scorers /\ probe.a.tags = probe.b.tags /\ probe.a.ver > probe.b.ver)
        => probed.out[1] > probed.out[2]

C12_Witness ==
    /\ probed.fn = "model_scorer"
    /\ probe.a = [ver |-> 20, tags |-> {"flash", "lite", "preview"}]
    /\ probe.b = [ver |-> 15, tags |-> {"flash", "lite", "preview"}]
    /\ probed.out = <<20000 + 200 + 50 - 500, 15000 + 200 + 50 - 500>>

\* "vision" in model_name and "pro" not in model_name
VisionOnly(id) == "vision" \in id.tags /\ "pro" \notin id.tags

C14_VersionDescNameAsc ==
    probed.fn = "list_models" =>
        \A i, j \in 1..Len(probed.out) : i < j =>
            \/ ExtractVersion(probed.out[i]) > ExtractVersion(probed.out[j])
            \/ /\ ExtractVersion(probed.out[i]) = ExtractVersion(probed.out[j])
               /\ NameRank(probed.out[i]) <= NameRank(probed.out[j])

\* a and b have the same version and the same tags, but for "preview" on a
PreviewAgainstPlain ==
    /\ probed.fn \in Scorers
    /\ probe.a.ver = probe.b.ver
    /\ "preview" \notin probe.b.tags
    /\ probe.a.tags = probe.b.tags \cup {"preview"}

\* C15 as the spec states it: between two candidates of the same version and
\* tier the one tagged preview / experimental is ranked ahead of the untagged
\* one by each of the three scoring functions.
C15_Original ==
    PreviewAgainstPlain => probed.out[1] > probed.out[2]

\* C15 as the code has it: model_scorer gives the tagged candidate a bonus of 5
\* and _calculate_model_score a bonus of 1, which rank it ahead of the untagged
\* one; sort_key gives it experimental_penalty = -1 against 0, which ranks it
\* behind the untagged one.
C15_PreviewBonusOrPenalty ==
    PreviewAgainstPlain =>
        /\ probed.fn = "model_scorer" => probed.out[1] = probed.out[2] + 50
        /\ probed.fn = "_calculate_model_score" => probed.out[1] = probed.out[2] + 10
        /\ probed.fn = "sort_key" => probed.out[1] = probed.out[2] - 1

C15_Witness ==
    /\ probed.fn = "sort_key"
    /\ probe.a = [ver |-> 15, tags |-> {"pro", "preview"}]
    /\ probe.b = [ver |-> 15, tags |-> {"pro"}]
    /\ probed.out[1] < probed.out[2]

\* C16: a call of ModelChain.get_models (by a request that starts, or by another
\* caller while a request waits) fetches the models only when the cache is empty
\* or more than _CACHE_DURATION = 3600 seconds have passed since the last fetch.
\* Inside that window the cached list and the fetch time stay as they are and
\* the request gets the cached list; the first call after it stores a fresh
\* discovery result and the time of the call.
C16_CacheTTL ==
    [][bot = "draft" =>
         IF models = <<>> \/ now - lastFetch > 3600
         THEN /\ (models' # models \/ lastFetch' # lastFetch \/ nreq' # nreq) =>
                    /\ lastFetch' = now
                    /\ \E l \in Listings : models' = FetchAndRankModels(l)
              /\ nreq' # nreq => chain' = models'
         ELSE /\ models' = models
              /\ lastFetch' = lastFetch
              /\ nreq' # nreq => chain' = models]_vars

C16_Witness ==
    /\ bot = "draft" /\ nreq = 2 /\ pc = "run" /\ calls = <<>>
    /\ lastFetch = EpochStart
    /\ now = EpochStart + TickSeconds
    /\ now - lastFetch <= CACHE_DURATION
    /\ chain = models

\* C19: a request of telegram_bot's _generate_with_retry or of analyze_and_draft
\* tries the candidates of the list it read when it started, each once and in
\* the order of that list, also when another caller replaces the shared list
\* while the request waits for a model; the model returned with a text is the
\* one that gave it.
C19_SnapshotOrder ==
    bot \in {"telegram", "draft"} =>
        /\ \A n \in 1..Len(calls) : calls[n].idx = n /\ calls[n].model = chain[n]
        /\ Len(calls) <= Len(chain)
        /\ (pc = "done" /\ result.kind = "success") =>
              result.model = chain[Len(calls)]
        /\ (pc = "done" /\ result.kind = "failure" /\ ~raised) =>
              Len(calls) = Len(chain)

C19_Witness ==
    /\ bot = "draft" /\ pc = "run"
    /\ models # chain /\ Len(models) < Len(chain)
    /\ lastFetch = now
    /\ Len(calls) = 1
    /\ idx = 2

\* the call gave the request its result
GaveResult(out) ==
    /\ out.exc = ""
    /\ CASE bot = "draft" -> JsonLoads(out.text)
         [] bot = "investor" -> ParseResponse(out.text).ok
         [] OTHER -> out.text # ""

PerCandidateLimit ==
    CASE bot = "twitter" -> retries
      [] bot = "investor" -> 3
      [] OTHER -> 1

\* C18: a request makes at most (per-candidate limit) x (candidates tried)
\* generation calls, whatever the backends return; while it runs it has made
\* fewer than (per-candidate limit) x (candidates) calls, so that it ends after
\* at most that many.
C18_BoundedCalls ==
    bot \in Bots =>
        /\ calls # <<>> => Len(calls) <= PerCandidateLimit * Place(Len(calls))
        /\ \A i \in 1..Len(chain) : CallsTo(i) <= PerCandidateLimit
        /\ Len(calls) <= PerCandidateLimit * Len(chain)
        /\ pc = "run" => Len(calls) < PerCandidateLimit * Len(chain)

C18_Witness ==
    /\ bot = "investor" /\ pc = "done" /\ result = InvestorFallback
    /\ Len(chain) = 3
    /\ Len(calls) = 9
    /\ \A i \in 1..3 : CallsTo(i) = 3

\* the response came without an exception and its text is no JSON
Malformed(out) ==
    /\ out.exc = ""
    /\ IF bot = "investor" THEN out.text = <<BrokenPayload>>
       ELSE out.text \in {"not json", ""}

\* C20: in analyze_and_draft and in CommitSummarizer.analyze_and_split a response
\* that cannot be parsed makes the candidate fail and nothing more: no exception
\* reaches the caller, the request does not end on that call, and when the first
\* candidate's response is malformed and the second candidate's is valid the
\* request ends there with what was parsed from the second candidate's response.
C20_ParseFailureFailsOver ==
    bot \in {"draft", "investor"} =>
        /\ ~raised
        /\ \A n \in 1..Len(calls) : Malformed(calls[n].out) =>
              IF n < Len(calls)
              THEN calls[n+1].idx = (IF calls[n].idx < Len(chain) THEN calls[n].idx + 1 ELSE 1)
              ELSE result.kind # "success"
        /\ (Len(chain) >= 2 /\ Len(calls) >= 2 /\ Malformed(calls[1].out)
            /\ calls[2].out.exc = "" /\ ~Malformed(calls[2].out)) =>
              /\ pc = "done" /\ Len(calls) = 2
              /\ calls[2].model = chain[2]
              /\ bot = "draft" =>
                    result = Success("{\"analysis\": \"ok\", \"options\": []}", chain[2])
              /\ bot = "investor" =>
                    result.kind = "success" /\ result.updates = <<"a", "b">>

C20_Witness ==
    /\ bot = "investor" /\ pc = "done" /\ Len(calls) = 2
    /\ calls[1].out.text = <<BrokenPayload>>
    /\ calls[2].out.text = <<Fence, "json", "\n", ArrayPayload, "\n", Fence>>
    /\ calls[2].model = chain[2]
    /\ result = InvestorSuccess(<<"a", "b">>)

\* C21: for every well-formed JSON array of strings, _parse_response of its text
\* in a json fence, in a plain fence or bare, with optional white space around
\* it, returns exactly the strings of the array.
C21_FenceRoundTrip ==
    (probed.fn = "_parse_response" /\ probe.payload \in ArrayPayloads)
        => probed.out = <<[ok |-> TRUE, updates |-> JsonValue(probe.payload).items]>>

\* a non-empty array in a json fence with white space on every side was parsed
C21_Witness ==
    /\ probed.fn = "_parse_response"
    /\ probe.style = "json" /\ probe.payload = ArrayPayload
    /\ probe.pre # <<>> /\ probe.open # <<>> /\ probe.close # <<>> /\ probe.post # <<>>
    /\ probed.out[1].updates = <<"a", "b">>

\* a sequence in which no element occurs twice
NoDuplicates(s) == \A i, j \in 1..Len(s) : s[i] = s[j] => i = j

\* C22: the candidate list produced by discovery holds no identifier twice, even
\* when the listing endpoint returns the same model more than once.
C22_Deduplicated ==
    probed.fn \in {"list_models", "discover_models"} => NoDuplicates(probed.out)

\* C23: every generation call of a request receives the prompt and the system
\* instruction of the request (telegram_bot: the default instruction when the
\* caller gave none), and telegram_bot's calls receive the temperature the
\* caller gave; twitter_bot's calls, whose caller gives none, the fixed 0.7.
\* No attempt and no candidate changes them.
C23_RequestPassedUnchanged ==
    bot \in {"twitter", "telegram"} =>
        \A i \in 1..Len(calls) :
            /\ calls[i].config.contents = request.prompt
            /\ calls[i].config.system_instruction =
                   (IF request.system_instruction # "" THEN request.system_instruction
                    ELSE TOPI_SYSTEM_INSTRUCTION)
            /\ calls[i].config.temperature =
                   (IF bot = "telegram" THEN request.temperature ELSE TWITTER_TEMPERATURE)
            /\ calls[i].config = calls[1].config

\* a telegram_bot request with a temperature other than the default one has
\* failed over to a second candidate
C23_Witness ==
    /\ bot = "telegram" /\ Len(calls) >= 2
    /\ request.temperature # TELEGRAM_DEFAULT_TEMPERATURE
    /\ calls[2].idx # calls[1].idx
    /\ calls[2].config.temperature = request.temperature

\* the journal entries a step has added
NewEvents == SubSeq(journal', Len(journal) + 1, Len(journal'))

\* the successful deliveries of the first update of a commit
FirstDeliveries(sha) ==
    {i \in 1..Len(journal) : /\ journal[i].ev = "send" /\ journal[i].ok
                              /\ journal[i].sha = sha /\ journal[i].part = 1}

\* how many commits are at or before last_processed_sha
Processed == IF state.last_processed_sha = None THEN 0 ELSE Chrono(state.last_processed_sha)

\* C24: last_processed_sha changes only in the step in which the send of the
\* first update of a commit returns success, and then to that commit's SHA; a
\* failed delivery and a failed detail fetch leave it as it was.
C24_MarkedOnlyAfterDelivery ==
    [][state'.last_processed_sha # state.last_processed_sha =>
          \E t \in Tasks :
              /\ tasks[t].pc = "send_first"
              /\ tasks[t].msg.part = 1 /\ tasks[t].msg.sha = tasks[t].sha
              /\ state'.last_processed_sha = tasks[t].sha
              /\ NewEvents[1] = Event("send", t, tasks[t].msg, TRUE)]_vars

\* the first update of c1 was not delivered and c1 was not marked; a later
\* run delivered it and marked c1
C24_Witness ==
    /\ state.last_processed_sha = "c1"
    /\ \E i \in 1..Len(journal) :
          /\ journal[i].ev = "send" /\ ~journal[i].ok
          /\ journal[i].sha = "c1" /\ journal[i].part = 1
          /\ \E j \in FirstDeliveries("c1") : i < j
          /\ \A j \in 1..i : journal[j].ev # "mark"

\* C26: CommitSummarizer.FALLBACK_MESSAGE keeps the value it was defined with.
C26_FallbackMessageUnchanged == fallback_message = FALLBACK_MESSAGE

\* C27: over any sequence of runs, no update of a commit is delivered twice, and
\* no commit is summarised after one of its updates was queued or delivered.
C27_NoRepeatedDelivery ==
    \A i, j \in 1..Len(journal) :
        (i < j /\ journal[i].sha = journal[j].sha) =>
            /\ ~(/\ journal[i].ev = "send" /\ journal[i].ok
                 /\ journal[j].ev = "send" /\ journal[j].ok
                 /\ journal[i].part = journal[j].part)
            /\ ~(/\ journal[j].ev = "summarise"
                 /\ \/ journal[i].ev = "queue"
                    \/ journal[i].ev = "send" /\ journal[i].ok)

\* C28: a run that finds the queue non-empty pops its head, sends exactly that
\* update, and neither fetches nor summarises a commit; commits are fetched and
\* summarised only by runs that found the queue empty.
C28_QueueBeforeCommits ==
    [][/\ (nruns' # nruns /\ state.pending_updates # <<>>) =>
              /\ journal' = journal
              /\ state'.pending_updates = Tail(state.pending_updates)
              /\ state'.last_processed_sha = state.last_processed_sha
              /\ \E t \in Tasks :
                    /\ tasks[t].pc = "idle"
                    /\ tasks'[t] = [pc |-> "send_queued",
                                    msg |-> Head(state.pending_updates), sha |-> None]
       /\ (\E i \in 1..Len(NewEvents) : NewEvents[i].ev \in {"fetch", "summarise"}) =>
              state.pending_updates = <<>>
       /\ \A t \in Tasks :
              (tasks[t].pc = "send_queued" /\ tasks'[t].pc # "send_queued") =>
                  \E ok \in BOOLEAN :
                      NewEvents = <<Event("send", t, tasks[t].msg, ok)>>]_vars

\* a queued second update was sent by a run, after the run that queued it
C28_Witness ==
    \E i, j \in 1..Len(journal) :
        /\ i < j
        /\ journal[i].ev = "queue"
        /\ journal[j].ev = "send" /\ journal[j].part = 2
        /\ journal[j].sha = journal[i].sha
        /\ \A k \in i + 1..j : journal[k].ev \notin {"fetch", "summarise"}

\* C29: a run summarises at most one commit, and it is the commit that follows
\* last_processed_sha in the order the commits were made (the first commit
\* when no SHA is stored); nothing is summarised when last_processed_sha is
\* the newest commit, and last_processed_sha advances by one commit at a time.
C29_OneCommitPerRunInOrder ==
    [][/\ Cardinality({i \in 1..Len(NewEvents) : NewEvents[i].ev = "summarise"}) <= 1
       /\ \A i \in 1..Len(NewEvents) :
              NewEvents[i].ev = "summarise" =>
                  /\ Processed < Len(repo)
                  /\ NewEvents[i].sha = Shas[Processed + 1]
       /\ state'.last_processed_sha # state.last_processed_sha =>
              state'.last_processed_sha = Shas[Processed + 1]]_vars

\* c1 and then c2 were summarised and marked, and a run that found c2 the
\* newest commit fetched the history and summarised nothing
C29_Witness ==
    /\ Len(repo) = 2 /\ state.last_processed_sha = "c2"
    /\ Len(journal) > 0
    /\ journal[Len(journal)].ev = "fetch" /\ journal[Len(journal)].ok
    /\ \E i, j \in 1..Len(journal) :
          /\ i < j
          /\ journal[i].ev = "mark" /\ journal[i].sha = "c1"
          /\ journal[j].ev = "mark" /\ journal[j].sha = "c2"

\* C30: with the scheduled run and a /trigger run in flight together, no commit
\* has its first update delivered twice, and last_processed_sha never goes
\* back to an older commit.
C30_NoDoubleProcessing ==
    \A i, j \in 1..Len(journal) :
        i < j =>
            /\ ~(i \in FirstDeliveries(journal[j].sha) /\ j \in FirstDeliveries(journal[j].sha))
            /\ (journal[i].ev = "mark" /\ journal[j].ev = "mark") =>
                   Chrono(journal[i].sha) <= Chrono(journal[j].sha)

\* C25: when check_flood reports spam for a message of a user who is no admin
\* and the user is muted, the dispatch of the message is stopped: neither the
\* content analysis nor ai_chat_handler processes it.
C25_FloodStopsPropagation ==
    (update.spam /\ update.muted) =>
        (update.stopped /\ ~update.analysed /\ ~update.ai)

\* C31: an update taken from the pending queue whose send failed is not lost:
\* it is still in the queue, or in the hands of a run, or it was delivered by a
\* later send.
C31_FailedUpdateNotLost ==
    \A i \in 1..Len(journal) :
        (journal[i].ev = "send" /\ ~journal[i].ok /\ journal[i].part >= 2) =>
            \/ \E k \in 1..Len(state.pending_updates) :
                   /\ state.pending_updates[k].sha = journal[i].sha
                   /\ state.pending_updates[k].part = journal[i].part
            \/ \E t \in Tasks :
                   /\ tasks[t].msg.sha = journal[i].sha
                   /\ tasks[t].msg.part = journal[i].part
            \/ \E j \in i + 1..Len(journal) :
                   /\ journal[j].ev = "send" /\ journal[j].ok
                   /\ journal[j].sha = journal[i].sha
                   /\ journal[j].part = journal[i].part

\* C32: in telegram_bot a request calls the models of its chain in chain order
\* from the head, each at most once, whatever the call ends with (quota, server
\* error, invalid argument, another exception, an empty text); the calls of a
\* request are never more than the chain is long.
C32_EachModelOnceInOrder ==
    bot = "telegram" =>
        /\ Len(calls) <= Len(chain)
        /\ \A i \in 1..Len(calls) :
               /\ calls[i].idx = i
               /\ calls[i].model = chain[i]
               /\ calls[i].attempt = 0

\* a request went through a chain of three models that ended with an invalid
\* argument, a server error and an empty text
C32_Witness ==
    /\ bot = "telegram" /\ pc = "done" /\ result = TelegramFailure
    /\ Len(chain) = 3 /\ Len(calls) = 3
    /\ calls[1].out.exc = "InvalidArgument"
    /\ calls[2].out.exc = "InternalServerError"
    /\ calls[3].out = Resp("")

\* C33: twitter_bot's list_models never stores a failed or an empty discovery in
\* _model_cache (the cache stays empty and the next call contacts the listing
\* endpoint again), and with a non-empty cache every call returns that very list,
\* leaves the cache as it is and does not contact the listing endpoint.
C33_CacheOnlyNonEmptyListing ==
    [][probed'.fn = "list_models" =>
         /\ models # <<>> =>
                /\ models' = models
                /\ probed'.out = <<models, FALSE>>
         /\ models = <<>> =>
                /\ probed'.out[2] = TRUE
                /\ (probe'.raises \/ FoundModels(probe'.items) = <<>>) =>
                       /\ models' = <<>>
                       /\ probed'.out[1] = <<>>
                /\ models' = probed'.out[1]]_vars

\* a call returned the cached list without contacting the endpoint, which would
\* have answered with other models
C33_Witness ==
    /\ bot = "listing" /\ models # <<>>
    /\ probed = [fn |-> "list_models", out |-> <<models, FALSE>>]
    /\ ~probe.raises
    /\ FoundModels(probe.items) # <<>>
    /\ Range(FoundModels(probe.items)) # Range(models)

\* the calls of the journal up to call j that replace the queue, and what the
\* last of them stored (nothing before the first, nothing after a clear)
Stores(j) ==
    {i \in 1..j : journal[i].ev \in {"set_pending_updates", "clear_pending_updates"}}

LastStore(j) == IF Stores(j) = {} THEN 0 ELSE CHOOSE i \in Stores(j) : \A k \in Stores(j) : k <= i

Stored(j) == IF LastStore(j) = 0 THEN <<>> ELSE journal[LastStore(j)].arg

\* the pops among the calls since that store, up to call j
PopsSinceStore(j) ==
    Cardinality({i \in LastStore(j) + 1..j : journal[i].ev = "pop_next_update"})

\* the argument of the last update_last_processed_sha, None before the first
LastMarked ==
    LET marks == {i \in 1..Len(journal) : journal[i].ev = "update_last_processed_sha"}
    IN  IF marks = {} THEN None
        ELSE journal[CHOOSE i \in marks : \A k \in marks : k <= i].arg[1]

C35_AdminsNeverRestricted ==
    bot = "welcome" =>
        \A i \in 1..Len(journal) :
            journal[i].ev = "restrict_chat_member" =>
                journal[i].arg[3] \notin {"creator", "administrator"}

====
